---- MODULE Spec2Model ----
(***************************************************************************)
(* State-machine model of ModernPDFViewer (src/pdf_viewer.py): the view    *)
(* state, the thumbnail cache, the tool switches, the redaction and text   *)
(* overlay stores with their canvas items, and the exporter.               *)
(*                                                                         *)
(* Conventions                                                             *)
(*  - Python None is modelled by a record with set = FALSE, or by 0 for an *)
(*    item reference.                                                      *)
(*  - A Tk canvas item id is modelled by the item's position in the       *)
(*    display list (creation order).  An id whose item was deleted is     *)
(*    DEAD: Tk never reuses ids, so such a reference is truthy in Python  *)
(*    but addresses no item.                                               *)
(*  - zoom factors are in hundredths (1.5 is 150).                         *)
(*  - page-space numbers are exact fractions <<numerator, denominator>>.   *)
(***************************************************************************)
EXTENDS Integers, Sequences, FiniteSets, TLC

(***************************************************************************)
(* Bounds of the model.                                                    *)
(***************************************************************************)
\* number of pages of the opened document (total_pages, line 153)
NumPages == 3
\* capacity of the thumbnail cache; stands for max_thumb_cache = 200 (line 104)
max_thumb_cache == 2
\* pages per thumbnail batch; stands for _thumb_batch_size = 8 (line 115)
thumb_batch_size == 1
\* most display_page callbacks pending in the event loop at once
MaxAfter == 3
\* most redaction rectangles on the canvas, and in the store, at once
MaxRedactItems == 1
\* most text annotations ever created in a session
MaxTexts == 1
\* most text entry widgets open at once
MaxEntries == 1
\* most text items on the canvas at once
MaxTextItems == 2
\* how far right of and below the pointer positions a move or a nudge may
\* carry an item
Reach == 5
\* most Share/Save dialogs open at once
MaxDialogs == 1

(***************************************************************************)
(* Program constants.                                                      *)
(***************************************************************************)
base_zoom == 150
min_zoom == 40
max_zoom == 600
\* minimum width and height of a drawn redaction (line 818)
MinRedact == 5
\* step of a keyboard nudge (lines 752-755)
NudgeStep == 5
\* least width and height a nudge leaves (lines 836, 838)
NudgeFloor == 5
\* display_page refuses to render on a canvas smaller than this (line 1146)
MinCanvas == 50
\* margin kept around the page image in fit mode (lines 1158-1159)
FitMargin == 40

Pages == 0 .. (NumPages - 1)

\* page.rect of each page in points: portrait and landscape pages alternate
PageRect(p) == IF p % 2 = 0 THEN [w |-> 60, h |-> 80] ELSE [w |-> 80, h |-> 60]

\* sizes the canvas widget can have: unmapped (1 x 1) and laid out
CanvasSizes == { <<1, 1>>, <<140, 140>> }

(***************************************************************************)
(* Arithmetic helpers.                                                     *)
(***************************************************************************)
Max(a, b) == IF a >= b THEN a ELSE b
Min(a, b) == IF a <= b THEN a ELSE b
Abs(a) == IF a < 0 THEN -a ELSE a
CeilDiv(a, b) == (a + b - 1) \div b

RECURSIVE GCD(_, _)
\* Euclid's algorithm; each step works on the values x, y of its arguments
GCD(a, b) ==
    CHOOSE g \in { IF y = 0 THEN x ELSE GCD(y, x % y) : x \in {a}, y \in {b} } : TRUE

\* the fraction n/d (d > 0) in lowest terms
Frac(n, d) == LET g == GCD(Abs(n), d) IN <<n \div g, d \div g>>
FracLE(a, b) == a[1] * b[2] <= b[1] * a[2]
FracMin(a, b) == IF FracLE(a, b) THEN a ELSE b
FracMax(a, b) == IF FracLE(a, b) THEN b ELSE a
FracAdd(a, b) == Frac(a[1] * b[2] + b[1] * a[2], a[2] * b[2])

RemoveAt(s, i) == SubSeq(s, 1, i - 1) \o SubSeq(s, i + 1, Len(s))
SeqSet(s) == { s[i] : i \in 1 .. Len(s) }

VARIABLES
    alive,              \* FALSE once close_viewer has run
    current_page,       \* self.current_page
    fit_to_window,      \* self.fit_to_window
    zoom,               \* self.zoom, in hundredths
    canvas_size,        \* <<winfo_width, winfo_height>> of pdf_canvas
    page_photo,         \* self._page_photo: [set, w, h]
    display_after,      \* display_page callbacks pending (root.after, line 1147)
    thumbnail_cache,    \* self.thumbnail_cache: keys, least recently used first
    thumb_batch_idx,    \* self._thumb_batch_idx
    thumb_after,        \* a _schedule_thumb_batch callback is pending
    access_order,       \* history: pages in order of their last _ensure_thumb
    active_tool,        \* self._active_tool
    canvas_binds,       \* whose gesture handlers are bound to pdf_canvas
    root_arrows,        \* what the arrow keys are bound to on root
    text_overlay,       \* self._text_overlay: "absent", "active", "inactive"
    text_panel,         \* hasattr(self, '_text_panel')
    redact_overlay,     \* self._redact_overlay
    redactions_by_page, \* self._redactions_by_page
    redact_items,       \* canvas items tagged redact_overlay: coords, in order
    texts_by_page,      \* self._texts_by_page: per page, references into text_heap
    text_items,         \* canvas items tagged text_overlay
    entries,            \* open text entry widgets (closures of _text_click)
    selected_text,      \* self._selected_text
    text_drag,          \* self._text_drag
    panel,              \* _font_family, _font_size, _text_color
    text_heap,          \* the text dicts created so far, by identity
    button_down,        \* mouse button 1 is held on the canvas
    share_dialogs,      \* open Share/Save dialogs (action_share_save)
    files,              \* what lies at each target path
    last_export,        \* history: how the latest _export_with_overlays ended
    mapped              \* history: the latest call of the coordinate mapper

view_vars == <<current_page, fit_to_window, zoom, canvas_size, page_photo, display_after>>
thumb_vars == <<thumbnail_cache, thumb_batch_idx, thumb_after, access_order>>
tool_vars == <<active_tool, canvas_binds, root_arrows, text_overlay, text_panel>>
redact_vars == <<redact_overlay, redactions_by_page, redact_items>>
text_vars == <<texts_by_page, text_items, entries, selected_text, text_drag, panel, text_heap>>
export_vars == <<files, last_export, mapped>>
mouse_vars == <<button_down, share_dialogs>>
vars == <<alive, view_vars, thumb_vars, tool_vars, redact_vars, text_vars,
          mouse_vars, export_vars>>

None == [set |-> FALSE]
DEAD == 0 - 1

(***************************************************************************)
(* Rendering (display_page, lines 1140-1191).                              *)
(***************************************************************************)
\* page.get_pixmap(matrix=fitz.Matrix(z, z)): the page rectangle scaled by z
Pixmap(p, z) == [w |-> CeilDiv(PageRect(p).w * z, 100),
                 h |-> CeilDiv(PageRect(p).h * z, 100)]

\* PIL round_aspect: of floor and ceiling of a/b the one that keeps the aspect
\* ratio better (the floor on a tie), at least 1.  err(n) is the distance used.
RoundAspectW(img, y) ==
    LET f == (y * img.w) \div img.h
        c == CeilDiv(y * img.w, img.h)
        pick == IF Abs(img.w * y - f * img.h) <= Abs(img.w * y - c * img.h) THEN f ELSE c
    IN  Max(pick, 1)

RoundAspectH(img, x) ==
    LET f == (x * img.h) \div img.w
        c == CeilDiv(x * img.h, img.w)
        pick == IF f = 0 THEN f
                ELSE IF Abs(img.w * f - x * img.h) * c <= Abs(img.w * c - x * img.h) * f
                     THEN f ELSE c
    IN  Max(pick, 1)

\* img.thumbnail((tw, th)): shrink to fit, keeping the aspect ratio
Thumbnail(img, tw, th) ==
    IF tw >= img.w /\ th >= img.h THEN img
    ELSE IF tw * img.h >= img.w * th
         THEN [w |-> RoundAspectW(img, th), h |-> th]
         ELSE [w |-> tw, h |-> RoundAspectH(img, tw)]

\* the PhotoImage display_page builds for page p (lines 1153-1176)
Render(p, fit, z, cs) ==
    LET img == IF fit
               THEN Thumbnail(Pixmap(p, base_zoom),
                              Max(1, Max(MinCanvas, cs[1]) - FitMargin),
                              Max(1, Max(MinCanvas, cs[2]) - FitMargin))
               ELSE Pixmap(p, z)
    IN  [set |-> TRUE, w |-> img.w, h |-> img.h]

\* lines 1143-1148: display_page renders only on a laid-out canvas
Big(cs) == cs[1] >= MinCanvas /\ cs[2] >= MinCanvas

\* _restore_redactions (lines 851-859): one canvas item per stored rectangle
RestoreRedactions(reds, p) == reds[p]

\* _render_text / _restore_texts (lines 721-738): one item per stored text
RECURSIVE RenderTexts(_, _)
RenderTexts(refs, heap) ==
    IF refs = <<>> THEN <<>>
    ELSE <<[td |-> Head(refs), x |-> heap[Head(refs)].x, y |-> heap[Head(refs)].y]>>
         \o RenderTexts(Tail(refs), heap)

RestoreTexts(texts, heap, p) == RenderTexts(texts[p], heap)

\* a reference to a canvas item after every item of its tag was deleted
Dangle(ref) == IF ref = 0 THEN 0 ELSE DEAD

\* display_page for page cp under fit flag and zoom z (the values the caller
\* has just assigned); it owns the primed canvas and photo variables
display_page(cp, fit, z, cs, aft) ==
    IF ~Big(cs)
    THEN /\ display_after' = aft + 1
         /\ UNCHANGED <<page_photo, redact_items, text_items, redact_overlay,
                        selected_text, text_drag>>
    ELSE /\ page_photo' = Render(cp, fit, z, cs)
         /\ redact_items' = RestoreRedactions(redactions_by_page, cp)
         /\ text_items' = RestoreTexts(texts_by_page, text_heap, cp)
         /\ redact_overlay' = IF redact_overlay.set
                              THEN [redact_overlay EXCEPT !.current_item = Dangle(@)]
                              ELSE redact_overlay
         /\ selected_text' = IF selected_text.set
                             THEN [selected_text EXCEPT !.item = Dangle(@)]
                             ELSE selected_text
         /\ text_drag' = IF text_drag.set
                         THEN [text_drag EXCEPT !.item = Dangle(@)]
                         ELSE text_drag
         /\ display_after' = aft

\* display_page may add a callback only while the model's budget allows
CanDisplay(cs, aft) == Big(cs) \/ aft < MaxAfter

(***************************************************************************)
(* Thumbnail cache (lines 1107-1137).                                      *)
(***************************************************************************)
SeqWithout(s, x) == SelectSeq(s, LAMBDA e : e # x)

RECURSIVE PopNewest(_, _)
\* an eviction from the wrong end: the newest entries go first
PopNewest(cache, cap) ==
    IF Len(cache) > cap THEN PopNewest(SubSeq(cache, 1, Len(cache) - 1), cap) ELSE cache

RECURSIVE PopWhileOver(_, _)
\* lines 1132-1133: popitem(last=False) while the cache is over capacity
PopWhileOver(cache, cap) ==
    IF Len(cache) > cap THEN PopWhileOver(Tail(cache), cap) ELSE cache

\* a cache whose hits leave the order alone (first in, first out)
EnsureThumbFifo(cache, p) ==
    IF p \in SeqSet(cache)
    THEN cache
    ELSE PopWhileOver(Append(cache, p), max_thumb_cache)

\* _ensure_thumb on the cache: a hit moves the key to the end, a miss appends
\* it and evicts from the front
EnsureThumbCache(cache, p) ==
    IF p \in SeqSet(cache)
    THEN Append(SeqWithout(cache, p), p)
    ELSE PopWhileOver(Append(cache, p), max_thumb_cache)

\* history of accesses: p becomes the most recently accessed page
Touch(order, p) == Append(SeqWithout(order, p), p)

RECURSIVE EnsureRange(_, _, _)
\* the loop of _schedule_thumb_batch (lines 1112-1113) over pages i .. end-1
EnsureRange(cache, i, end) ==
    IF i >= end THEN cache ELSE EnsureRange(EnsureThumbCache(cache, i), i + 1, end)

RECURSIVE TouchRange(_, _, _)
TouchRange(order, i, end) ==
    IF i >= end THEN order ELSE TouchRange(Touch(order, i), i + 1, end)

BatchEnd(idx) == Min(idx + thumb_batch_size, NumPages)

ensure_thumb(p) ==
    /\ thumbnail_cache' = EnsureThumbCache(thumbnail_cache, p)
    /\ access_order' = Touch(access_order, p)

\* a batch that generates its thumbnails and schedules no callback for the
\* pages that remain
schedule_thumb_batch_once ==
    /\ alive
    /\ thumb_after
    /\ thumbnail_cache' = EnsureRange(thumbnail_cache, thumb_batch_idx, BatchEnd(thumb_batch_idx))
    /\ access_order' = TouchRange(access_order, thumb_batch_idx, BatchEnd(thumb_batch_idx))
    /\ thumb_batch_idx' = BatchEnd(thumb_batch_idx)
    /\ thumb_after' = FALSE
    /\ UNCHANGED <<alive, view_vars, tool_vars, redact_vars, text_vars, mouse_vars, export_vars>>

\* the callback root.after(50, self._schedule_thumb_batch) fires
schedule_thumb_batch ==
    /\ alive
    /\ thumb_after
    /\ IF thumb_batch_idx >= NumPages
       THEN UNCHANGED <<thumbnail_cache, access_order, thumb_batch_idx>> /\ thumb_after' = FALSE
       ELSE /\ thumbnail_cache' = EnsureRange(thumbnail_cache, thumb_batch_idx, BatchEnd(thumb_batch_idx))
            /\ access_order' = TouchRange(access_order, thumb_batch_idx, BatchEnd(thumb_batch_idx))
            /\ thumb_batch_idx' = BatchEnd(thumb_batch_idx)
            /\ thumb_after' = (BatchEnd(thumb_batch_idx) < NumPages)
    /\ UNCHANGED <<alive, view_vars, tool_vars, redact_vars, text_vars, mouse_vars, export_vars>>

(***************************************************************************)
(* Navigation and zoom (lines 1194-1233, 1262-1287).                       *)
(***************************************************************************)
\* goto_page: the effect on the state when the index is in range
goto_page_do(p) ==
    /\ current_page' = p
    /\ ensure_thumb(p)
    /\ display_page(p, fit_to_window, zoom, canvas_size, display_after)
    /\ UNCHANGED <<alive, fit_to_window, zoom, canvas_size, thumb_batch_idx, thumb_after,
                   tool_vars, redactions_by_page, texts_by_page, entries, panel, text_heap,
                   mouse_vars, export_vars>>

\* a goto_page that takes any index
goto_page_unchecked(p) == goto_page_do(p)

\* goto_page(page_num) (lines 1194-1200)
goto_page(p) ==
    IF 0 <= p /\ p < NumPages THEN goto_page_do(p) ELSE UNCHANGED vars

\* next_page (lines 1202-1205)
next_page ==
    IF current_page < NumPages - 1 THEN goto_page(current_page + 1) ELSE UNCHANGED vars

\* prev_page (lines 1207-1210)
prev_page ==
    IF current_page > 0 THEN goto_page(current_page - 1) ELSE UNCHANGED vars

\* a thumbnail button is clicked (line 1072); an index past the document
\* stands for a caller passing an out-of-range page number
ThumbClick(p) ==
    /\ alive
    /\ ~button_down
    /\ share_dialogs = 0
    /\ CanDisplay(canvas_size, display_after)
    /\ goto_page(p)

\* _wheel_to_pages (lines 1262-1267), from the mouse wheel over the page
Wheel(direction) ==
    /\ alive
    /\ share_dialogs = 0
    /\ CanDisplay(canvas_size, display_after)
    /\ IF direction > 0 THEN prev_page ELSE next_page

\* the Right and Left keys while bound as in bind_events (lines 1239-1240)
KeyRightNav ==
    /\ alive
    /\ root_arrows = "nav"
    /\ CanDisplay(canvas_size, display_after)
    /\ next_page

KeyLeftNav ==
    /\ alive
    /\ root_arrows = "nav"
    /\ CanDisplay(canvas_size, display_after)
    /\ prev_page

\* what a zoom handler leaves alone
zoom_frame ==
    UNCHANGED <<alive, current_page, canvas_size, thumb_vars, tool_vars, redactions_by_page,
                texts_by_page, entries, panel, text_heap, mouse_vars, export_vars>>

\* toggle_fit (lines 1212-1215)
toggle_fit ==
    /\ alive
    /\ CanDisplay(canvas_size, display_after)
    /\ fit_to_window' = ~fit_to_window
    /\ UNCHANGED zoom
    /\ display_page(current_page, ~fit_to_window, zoom, canvas_size, display_after)
    /\ zoom_frame

\* zoom_in(step) (lines 1217-1221); Ctrl+wheel passes 0.15 or 0.1
zoom_in(step) ==
    /\ alive
    /\ CanDisplay(canvas_size, display_after)
    /\ fit_to_window' = FALSE
    /\ zoom' = Min(max_zoom, zoom + step)
    /\ display_page(current_page, FALSE, Min(max_zoom, zoom + step), canvas_size, display_after)
    /\ zoom_frame

\* a zoom_out that subtracts the step and applies no lower bound
zoom_out_unbounded(step) ==
    /\ alive
    /\ CanDisplay(canvas_size, display_after)
    /\ fit_to_window' = FALSE
    /\ zoom' = zoom - step
    /\ display_page(current_page, FALSE, zoom - step, canvas_size, display_after)
    /\ zoom_frame

\* zoom_out(step) (lines 1223-1227)
zoom_out(step) ==
    /\ alive
    /\ CanDisplay(canvas_size, display_after)
    /\ fit_to_window' = FALSE
    /\ zoom' = Max(min_zoom, zoom - step)
    /\ display_page(current_page, FALSE, Max(min_zoom, zoom - step), canvas_size, display_after)
    /\ zoom_frame

\* zoom_reset (lines 1229-1233)
zoom_reset ==
    /\ alive
    /\ CanDisplay(canvas_size, display_after)
    /\ fit_to_window' = FALSE
    /\ zoom' = 100
    /\ display_page(current_page, FALSE, 100, canvas_size, display_after)
    /\ zoom_frame

\* <Configure> of pdf_canvas (lines 1246-1247): the canvas takes size cs
Configure(cs) ==
    /\ alive
    /\ cs # canvas_size
    /\ canvas_size' = cs
    /\ IF fit_to_window
       THEN /\ CanDisplay(cs, display_after)
            /\ display_page(current_page, fit_to_window, zoom, cs, display_after)
       ELSE UNCHANGED <<page_photo, redact_items, text_items, redact_overlay,
                        selected_text, text_drag, display_after>>
    /\ UNCHANGED <<alive, current_page, fit_to_window, zoom, thumb_vars, tool_vars,
                   redactions_by_page, texts_by_page, entries, panel, text_heap,
                   mouse_vars, export_vars>>

\* a callback root.after(50, self.display_page) fires (line 1147)
DisplayAfter ==
    /\ alive
    /\ display_after > 0
    /\ display_page(current_page, fit_to_window, zoom, canvas_size, display_after - 1)
    /\ UNCHANGED <<alive, current_page, fit_to_window, zoom, canvas_size, thumb_vars,
                   tool_vars, redactions_by_page, texts_by_page, entries, panel, text_heap,
                   mouse_vars, export_vars>>

\* close_viewer (lines 1301-1308): bound to <Escape> on root (line 1241),
\* which every widget of the window inherits, and to the window's close button
close_viewer ==
    /\ alive
    /\ alive' = FALSE
    /\ UNCHANGED <<view_vars, thumb_vars, tool_vars, redact_vars, text_vars,
                   mouse_vars, export_vars>>

(***************************************************************************)
(* Tool switches (lines 255-307, 431-445, 744-757, 1026-1045).             *)
(***************************************************************************)
FontLabels == <<"Sans (Helvetica)", "Serif (Times)", "Mono (Courier)">>

\* self._font_map (lines 138-142): label -> (Tk family, export font)
TkFamily(label) ==
    CASE label = "Sans (Helvetica)" -> "Helvetica"
      [] label = "Serif (Times)" -> "Times New Roman"
      [] label = "Mono (Courier)" -> "Courier New"
      [] OTHER -> "Helvetica"

\* _create_text_panel (lines 470-488): fresh panel variables
PanelDefault == [family |-> FontLabels[1], size |-> 12, color |-> "#000000"]

\* deactivate_current_tool (lines 1026-1045)
deactivate_current_tool ==
    /\ canvas_binds' = "none"
    /\ selected_text' = None
    /\ root_arrows' = "none"
    /\ text_overlay' = IF text_overlay = "absent" THEN "absent" ELSE "inactive"
    /\ text_panel' = FALSE
    /\ redact_overlay' = None

\* a tool row or its key toggles the tool off (first branch of on_stamp,
\* on_write, on_esign, on_redact: lines 270-272, 279-281, 288-290, 297-299)
ToolOff(name) ==
    /\ alive
    /\ ~button_down
    /\ active_tool = name
    /\ active_tool' = ""
    /\ deactivate_current_tool
    /\ UNCHANGED <<alive, view_vars, thumb_vars, redactions_by_page, redact_items,
                   texts_by_page, text_items, entries, text_drag, panel, text_heap,
                   mouse_vars, export_vars>>

\* on_stamp / on_esign switch the tool on (lines 274-276, 292-294): the
\* previous tool is deactivated, action_stamp / action_esignature show a box
on_plain(name) ==
    /\ alive
    /\ ~button_down
    /\ active_tool # name
    /\ active_tool' = name
    /\ deactivate_current_tool
    /\ UNCHANGED <<alive, view_vars, thumb_vars, redactions_by_page, redact_items,
                   texts_by_page, text_items, entries, text_drag, panel, text_heap,
                   mouse_vars, export_vars>>

\* on_write switches the text tool on (lines 283-285) and action_write
\* (lines 431-445) binds the text handlers and creates the panel
on_write ==
    /\ alive
    /\ ~button_down
    /\ active_tool # "write"
    /\ active_tool' = "write"
    /\ canvas_binds' = "text"
    /\ selected_text' = None
    /\ root_arrows' = "none"
    /\ text_overlay' = "active"
    /\ text_drag' = None
    /\ text_panel' = TRUE
    /\ panel' = PanelDefault
    /\ redact_overlay' = None
    /\ UNCHANGED <<alive, view_vars, thumb_vars, redactions_by_page, redact_items,
                   texts_by_page, text_items, entries, text_heap, mouse_vars, export_vars>>

\* on_redact switches the redaction tool on (lines 301-303) and
\* action_redact (lines 744-757) binds the redaction handlers and keys
on_redact ==
    /\ alive
    /\ ~button_down
    /\ active_tool # "redact"
    /\ active_tool' = "redact"
    /\ canvas_binds' = "redact"
    /\ selected_text' = None
    /\ root_arrows' = "redact"
    /\ text_overlay' = IF text_overlay = "absent" THEN "absent" ELSE "inactive"
    /\ text_panel' = FALSE
    /\ redact_overlay' = [set |-> TRUE, start |-> <<-1, -1>>, current_item |-> 0,
                          mode |-> "draw", offset |-> <<0, 0>>]
    /\ UNCHANGED <<alive, view_vars, thumb_vars, redactions_by_page, redact_items,
                   texts_by_page, text_items, entries, text_drag, panel, text_heap,
                   mouse_vars, export_vars>>

\* on_share (lines 305-307): the indicator is cleared without deactivating
\* the tool, and action_share_save opens its dialog
on_share ==
    /\ alive
    /\ ~button_down
    /\ share_dialogs < MaxDialogs
    /\ active_tool' = ""
    /\ share_dialogs' = share_dialogs + 1
    /\ UNCHANGED <<alive, view_vars, thumb_vars, canvas_binds, root_arrows, text_overlay,
                   text_panel, redact_vars, text_vars, button_down, export_vars>>

\* _esc (lines 352-354), the <Escape> binding of the tag "all"
esc ==
    /\ active_tool' = ""
    /\ deactivate_current_tool
    /\ UNCHANGED <<alive, view_vars, thumb_vars, redactions_by_page, redact_items,
                   texts_by_page, text_items, entries, text_drag, panel, text_heap,
                   mouse_vars, export_vars>>

\* the Escape key, the focus not in a text entry.  In the main window the
\* binding of root (line 1241) comes before the one of "all" (line 355) in
\* the binding tags of every widget: close_viewer destroys the window, and
\* _esc, should it still run, fails at its first step, the configure of a
\* destroyed widget (lines 258-259, 74).  In a Share/Save dialog, a toplevel
\* of its own, only the binding of "all" applies.
KeyEscape ==
    /\ alive
    /\ IF share_dialogs = 0 THEN close_viewer ELSE esc

(***************************************************************************)
(* Redaction tool (lines 759-859).                                         *)
(***************************************************************************)
\* pointer positions of the mouse events the model delivers
Points == { <<40, 40>>, <<45, 40>>, <<45, 45>> }
PointCoords == { pt[1] : pt \in Points } \cup { pt[2] : pt \in Points }
PlaneLo == CHOOSE v \in PointCoords : \A w \in PointCoords : v <= w
PlaneHi == (CHOOSE v \in PointCoords : \A w \in PointCoords : v >= w) + Reach

\* half of the outline width of a redaction rectangle (width=2, line 776)
OutlineHalf == 1

\* find_overlapping(x, y, x, y) meets the item: the point lies on the
\* rectangle or its outline
Hit(c, pt) ==
    /\ Min(c[1], c[3]) - OutlineHalf <= pt[1] /\ pt[1] <= Max(c[1], c[3]) + OutlineHalf
    /\ Min(c[2], c[4]) - OutlineHalf <= pt[2] /\ pt[2] <= Max(c[2], c[4]) + OutlineHalf

\* the first item of the display list under the pointer, 0 when none
FirstHit(items, pt) ==
    LET hits == { i \in 1 .. Len(items) : Hit(items[i], pt) }
    IN  IF hits = {} THEN 0 ELSE CHOOSE i \in hits : \A j \in hits : i <= j

\* list.remove(c) guarded by "c in list": the first equal element goes
RemoveFirst(s, c) ==
    LET at == { i \in 1 .. Len(s) : s[i] = c }
    IN  IF at = {} THEN s ELSE RemoveAt(s, CHOOSE i \in at : \A j \in at : i <= j)

\* a live reference to a canvas item
Live(ref) == ref > 0

\* pdf_canvas.coords(item) of a rectangle stays inside the modelled plane
InPlane(c) == \A k \in 1 .. 4 : PlaneLo <= c[k] /\ c[k] <= PlaneHi

RECURSIVE SumLen(_, _)
SumLen(f, p) == IF p >= NumPages THEN 0 ELSE Len(f[p]) + SumLen(f, p + 1)
\* rectangles in the store, all pages together
Stored == SumLen(redactions_by_page, 0)

NoStart == <<-1, -1>>

\* _redact_start (lines 759-777)
redact_start(pt) ==
    IF ~redact_overlay.set THEN UNCHANGED <<redact_overlay, redact_items>>
    ELSE LET hit == FirstHit(redact_items, pt) IN
         IF hit # 0
         THEN /\ redact_overlay' = [redact_overlay EXCEPT
                      !.mode = "move", !.current_item = hit,
                      !.offset = <<pt[1] - redact_items[hit][1], pt[2] - redact_items[hit][2]>>]
              /\ UNCHANGED redact_items
         ELSE /\ Len(redact_items) < MaxRedactItems
              /\ Stored < MaxRedactItems
              /\ redact_items' = Append(redact_items, <<pt[1], pt[2], pt[1], pt[2]>>)
              /\ redact_overlay' = [redact_overlay EXCEPT
                      !.mode = "draw", !.start = pt, !.current_item = Len(redact_items) + 1]

\* the rectangle a draw gesture spans (lines 800-803)
DrawCoords(start, pt) ==
    <<Min(start[1], pt[1]), Min(start[2], pt[2]), Max(start[1], pt[1]), Max(start[2], pt[2])>>

\* the rectangle a move gesture carries along (lines 805-810)
MoveCoords(c, offset, pt) ==
    LET nx == pt[1] - offset[1]
        ny == pt[2] - offset[2]
    IN  <<nx, ny, nx + (c[3] - c[1]), ny + (c[4] - c[2])>>

\* _redact_drag (lines 795-810); an exception leaves the state as it was
redact_drag(pt) ==
    /\ UNCHANGED redact_overlay
    /\ IF ~redact_overlay.set \/ redact_overlay.current_item = 0
       THEN UNCHANGED redact_items
       ELSE LET it == redact_overlay.current_item IN
            IF redact_overlay.mode = "draw"
            THEN IF redact_overlay.start = NoStart \/ ~Live(it)
                 THEN UNCHANGED redact_items
                 ELSE redact_items' = [redact_items EXCEPT
                          ![it] = DrawCoords(redact_overlay.start, pt)]
            ELSE IF ~Live(it)
                 THEN UNCHANGED redact_items
                 ELSE /\ InPlane(MoveCoords(redact_items[it], redact_overlay.offset, pt))
                      /\ redact_items' = [redact_items EXCEPT
                             ![it] = MoveCoords(redact_items[it], redact_overlay.offset, pt)]

\* a test that lets a rectangle through when one side alone is long enough
DegenerateBoth(c) == Abs(c[3] - c[1]) < MinRedact /\ Abs(c[4] - c[2]) < MinRedact

\* the test of line 818
Degenerate(c) == Abs(c[3] - c[1]) < MinRedact \/ Abs(c[4] - c[2]) < MinRedact

\* _redact_finish (lines 812-827)
redact_finish ==
    IF ~redact_overlay.set \/ redact_overlay.mode # "draw"
    THEN UNCHANGED <<redact_overlay, redact_items, redactions_by_page>>
    ELSE LET it == redact_overlay.current_item IN
         IF it = 0
         THEN /\ redact_overlay' = [redact_overlay EXCEPT !.start = NoStart, !.mode = "draw"]
              /\ UNCHANGED <<redact_items, redactions_by_page>>
         ELSE IF ~Live(it)
         THEN UNCHANGED <<redact_overlay, redact_items, redactions_by_page>>
         ELSE IF Degenerate(redact_items[it])
         THEN /\ redact_items' = RemoveAt(redact_items, it)
              /\ redact_overlay' = [redact_overlay EXCEPT
                      !.current_item = 0, !.start = NoStart, !.mode = "draw"]
              /\ UNCHANGED redactions_by_page
         ELSE /\ redactions_by_page' = [redactions_by_page EXCEPT
                      ![current_page] = Append(@, redact_items[it])]
              /\ redact_overlay' = [redact_overlay EXCEPT !.start = NoStart, !.mode = "draw"]
              /\ UNCHANGED redact_items

\* the reference ref after the item at position i left the display list
Shifted(ref, i) == IF ref > i THEN ref - 1 ELSE ref

\* _redact_right_click (lines 779-793)
redact_right_click(pt) ==
    IF ~redact_overlay.set
    THEN UNCHANGED <<redact_overlay, redact_items, redactions_by_page>>
    ELSE LET hit == FirstHit(redact_items, pt) IN
         IF hit = 0
         THEN UNCHANGED <<redact_overlay, redact_items, redactions_by_page>>
         ELSE /\ redactions_by_page' = [redactions_by_page EXCEPT
                      ![current_page] = RemoveFirst(@, redact_items[hit])]
              /\ redact_items' = RemoveAt(redact_items, hit)
              /\ redact_overlay' = [redact_overlay EXCEPT
                      !.current_item = IF @ = hit THEN 0 ELSE Shifted(@, hit)]

\* the rectangle after _adjust_redact(dim, delta) (lines 834-838)
AdjustCoords(c, dim, delta) ==
    IF dim = "h"
    THEN <<c[1], c[2], c[3], Max(c[2] + NudgeFloor, c[4] + delta)>>
    ELSE <<c[1], c[2], Max(c[1] + NudgeFloor, c[3] + delta), c[4]>>

\* _adjust_redact (lines 829-839), from an arrow key while the redaction
\* tool holds the keys (lines 752-755)
adjust_redact(dim, delta) ==
    /\ alive
    /\ root_arrows = "redact"
    /\ IF ~redact_overlay.set \/ ~Live(redact_overlay.current_item)
       THEN UNCHANGED redact_items
       ELSE /\ InPlane(AdjustCoords(redact_items[redact_overlay.current_item], dim, delta))
            /\ redact_items' = [redact_items EXCEPT ![redact_overlay.current_item] =
                                    AdjustCoords(@, dim, delta)]
    /\ UNCHANGED <<alive, view_vars, thumb_vars, tool_vars, redact_overlay,
                   redactions_by_page, text_vars, mouse_vars, export_vars>>

\* _delete_redact (lines 841-849), from the Delete key (line 756)
delete_redact ==
    /\ alive
    /\ root_arrows = "redact"
    /\ IF ~redact_overlay.set \/ redact_overlay.current_item = 0
       THEN UNCHANGED <<redact_overlay, redact_items, redactions_by_page>>
       ELSE LET it == redact_overlay.current_item IN
            /\ redactions_by_page' =
                   IF Live(it)
                   THEN [redactions_by_page EXCEPT
                             ![current_page] = RemoveFirst(@, redact_items[it])]
                   ELSE redactions_by_page
            /\ redact_items' = IF Live(it) THEN RemoveAt(redact_items, it) ELSE redact_items
            /\ redact_overlay' = [redact_overlay EXCEPT !.current_item = 0]
    /\ UNCHANGED <<alive, view_vars, thumb_vars, tool_vars, text_vars, mouse_vars, export_vars>>

(***************************************************************************)
(* Text tool (lines 504-738).                                              *)
(***************************************************************************)
\* what the user can have typed into an entry, as sequences of characters
Typed == { <<>>, <<" ">>, <<" ", " ">>, <<"a">>, <<" ", "a">> }
Whitespace == { " ", "\t", "\n" }

RECURSIVE LStrip(_)
LStrip(t) == IF t # <<>> /\ Head(t) \in Whitespace THEN LStrip(Tail(t)) ELSE t
RECURSIVE RStrip(_)
RStrip(t) == IF t # <<>> /\ t[Len(t)] \in Whitespace
             THEN RStrip(SubSeq(t, 1, Len(t) - 1)) ELSE t
\* a strip that removes nothing
StripNothing(t) == t

\* str.strip()
Strip(t) == RStrip(LStrip(t))

\* values the user can choose in the text panel (lines 471-499)
PanelFamilies == { FontLabels[1], FontLabels[3] }
PanelSizes == { 12, 20 }
PanelColors == { "#000000", "#FF0000" }

\* reach of find_overlapping around the pointer (lines 549, 617)
ClickSlop == 5
\* nominal bounding box of a rendered text, anchored at its top-left corner
TextExtent == [w |-> 8, h |-> 8]

TextHit(it, pt) ==
    /\ it.x - ClickSlop <= pt[1] /\ pt[1] <= it.x + TextExtent.w + ClickSlop
    /\ it.y - ClickSlop <= pt[2] /\ pt[2] <= it.y + TextExtent.h + ClickSlop

FirstTextHit(items, pt) ==
    LET hits == { i \in 1 .. Len(items) : TextHit(items[i], pt) }
    IN  IF hits = {} THEN 0 ELSE CHOOSE i \in hits : \A j \in hits : i <= j

\* the label whose Tk family is contained in the font (lines 704-707)
FamilyLabel(font) ==
    CASE font = "Helvetica" -> FontLabels[1]
      [] font = "Times New Roman" -> FontLabels[2]
      [] font = "Courier New" -> FontLabels[3]

\* a reference after the text item at position i was deleted
AfterDelete(ref, i) == IF ref = i THEN DEAD ELSE Shifted(ref, i)

\* _apply (lines 506-538), the write trace of the three panel variables,
\* on T = [heap, items, sel, drag] with the panel holding pnl
Apply(T, pnl) ==
    IF ~T.sel.set \/ T.drag.set THEN T
    ELSE LET u == T.sel.td
             td == T.heap[u]
             new == [td EXCEPT !.font = TkFamily(pnl.family), !.size = pnl.size,
                               !.color = pnl.color]
             it == T.sel.item
             items1 == IF Live(it) THEN RemoveAt(T.items, it) ELSE T.items
             items2 == Append(items1, [td |-> u, x |-> new.x, y |-> new.y])
         IN  IF new = td THEN T
             ELSE [heap |-> [T.heap EXCEPT ![u] = new],
                   items |-> items2,
                   sel |-> [set |-> TRUE, item |-> Len(items2), td |-> u],
                   drag |-> T.drag]

\* the panel after _select_text has set its variables (lines 704-709),
\* every write running the trace
SelectPanel1(T, pnl, u) == [pnl EXCEPT !.family = FamilyLabel(T.heap[u].font)]
SelectT1(T, pnl, u) == Apply(T, SelectPanel1(T, pnl, u))
SelectPanel2(T, pnl, u) ==
    [SelectPanel1(T, pnl, u) EXCEPT !.size = SelectT1(T, pnl, u).heap[u].size]
SelectT2(T, pnl, u) == Apply(SelectT1(T, pnl, u), SelectPanel2(T, pnl, u))
SelectPanel3(T, pnl, u) ==
    [SelectPanel2(T, pnl, u) EXCEPT !.color = SelectT2(T, pnl, u).heap[u].color]
SelectT3(T, pnl, u) == Apply(SelectT2(T, pnl, u), SelectPanel3(T, pnl, u))

\* _text_click (lines 543-609)
text_click(pt) ==
    IF text_overlay # "active"
    THEN UNCHANGED <<texts_by_page, text_items, entries, selected_text, text_drag, panel, text_heap>>
    ELSE LET hit == FirstTextHit(text_items, pt) IN
         IF hit # 0
         THEN LET u == text_items[hit].td IN
              IF u \notin SeqSet(texts_by_page[current_page])
              THEN UNCHANGED <<texts_by_page, text_items, entries, selected_text,
                               text_drag, panel, text_heap>>
              ELSE LET T0 == [heap |-> text_heap, items |-> text_items,
                              sel |-> [set |-> TRUE, item |-> hit, td |-> u],
                              drag |-> text_drag]
                       T3 == SelectT3(T0, panel, u)
                       gone == T3.sel.item # hit
                       x == IF gone THEN T3.heap[u].x ELSE text_items[hit].x
                       y == IF gone THEN T3.heap[u].y ELSE text_items[hit].y
                   IN  /\ Len(T3.items) <= MaxTextItems
                       /\ text_heap' = T3.heap
                       /\ text_items' = T3.items
                       /\ selected_text' = T3.sel
                       /\ panel' = SelectPanel3(T0, panel, u)
                       /\ text_drag' = [set |-> TRUE, item |-> IF gone THEN DEAD ELSE hit,
                                        td |-> u, dx |-> pt[1] - x, dy |-> pt[2] - y]
                       /\ UNCHANGED <<texts_by_page, entries>>
         ELSE /\ Len(entries) < MaxEntries
              /\ entries' = Append(entries, [x |-> pt[1], y |-> pt[2],
                                             page |-> current_page,
                                             family |-> TkFamily(panel.family)])
              /\ UNCHANGED <<texts_by_page, text_items, selected_text, text_drag, panel, text_heap>>

\* the dict save_text builds (lines 596-602)
TextData(e, text) ==
    [x |-> e.x, y |-> e.y, text |-> text, font |-> e.family, size |-> panel.size,
     color |-> panel.color]

\* save_text (lines 591-607): <Return> in the entry e with text typed
save_text(e, text) ==
    /\ alive
    /\ e \in 1 .. Len(entries)
    /\ entries' = RemoveAt(entries, e)
    /\ IF Strip(text) # <<>>
       THEN /\ Len(text_heap) < MaxTexts
            /\ Len(text_items) < MaxTextItems
            /\ text_heap' = Append(text_heap, TextData(entries[e], text))
            /\ texts_by_page' = [texts_by_page EXCEPT
                                     ![current_page] = Append(@, Len(text_heap) + 1)]
            /\ text_items' = Append(text_items, [td |-> Len(text_heap) + 1,
                                                 x |-> entries[e].x, y |-> entries[e].y])
       ELSE UNCHANGED <<text_heap, texts_by_page, text_items>>
    /\ UNCHANGED <<alive, view_vars, thumb_vars, tool_vars, redact_vars, selected_text,
                   text_drag, panel, mouse_vars, export_vars>>

\* <Escape> in the entry e (line 609) deletes its window; the key then
\* reaches the binding of root (line 1241), close_viewer
entry_escape(e) ==
    /\ alive
    /\ e \in 1 .. Len(entries)
    /\ entries' = RemoveAt(entries, e)
    /\ alive' = FALSE
    /\ UNCHANGED <<view_vars, thumb_vars, tool_vars, redact_vars, texts_by_page, text_items,
                   selected_text, text_drag, panel, text_heap, mouse_vars, export_vars>>

\* list.remove(td) guarded by "td in list" (lines 718-719): dicts compare
\* by value, the first equal one goes
RemoveEqual(lst, heap, u) ==
    LET at == { i \in 1 .. Len(lst) : heap[lst[i]] = heap[u] }
    IN  IF at = {} THEN lst ELSE RemoveAt(lst, CHOOSE i \in at : \A j \in at : i <= j)

\* _text_right_click (lines 611-637) with _delete_text (lines 713-719)
text_right_click(pt) ==
    IF text_overlay # "active"
    THEN UNCHANGED <<texts_by_page, text_items, selected_text, text_drag>>
    ELSE LET hit == FirstTextHit(text_items, pt) IN
         IF hit = 0 \/ text_items[hit].td \notin SeqSet(texts_by_page[current_page])
         THEN UNCHANGED <<texts_by_page, text_items, selected_text, text_drag>>
         ELSE /\ text_items' = RemoveAt(text_items, hit)
              /\ texts_by_page' = [texts_by_page EXCEPT
                     ![current_page] = RemoveEqual(@, text_heap, text_items[hit].td)]
              /\ selected_text' = None
              /\ text_drag' = IF text_drag.set
                              THEN [text_drag EXCEPT !.item = AfterDelete(@, hit)]
                              ELSE text_drag

\* _text_drag_move (lines 639-657)
text_drag_move(pt) ==
    IF ~text_drag.set
    THEN UNCHANGED <<text_items, selected_text>>
    ELSE /\ selected_text' = None
         /\ IF Live(text_drag.item)
            THEN /\ PlaneLo <= pt[1] - text_drag.dx /\ pt[1] - text_drag.dx <= PlaneHi
                 /\ PlaneLo <= pt[2] - text_drag.dy /\ pt[2] - text_drag.dy <= PlaneHi
                 /\ text_items' = [text_items EXCEPT
                        ![text_drag.item] = [@ EXCEPT !.x = pt[1] - text_drag.dx,
                                                      !.y = pt[2] - text_drag.dy]]
            ELSE UNCHANGED text_items

\* _text_drag_drop (lines 659-680)
text_drag_drop ==
    IF ~text_drag.set
    THEN UNCHANGED <<text_heap, selected_text, text_drag>>
    ELSE /\ text_heap' = IF Live(text_drag.item)
                         THEN [text_heap EXCEPT ![text_drag.td] =
                                  [@ EXCEPT !.x = text_items[text_drag.item].x,
                                            !.y = text_items[text_drag.item].y]]
                         ELSE text_heap
         /\ text_drag' = None
         /\ selected_text' = [set |-> TRUE, item |-> text_drag.item, td |-> text_drag.td]

\* the user changes a value in the text panel; the write runs _apply
PanelSet(pnl) ==
    /\ alive
    /\ text_panel
    /\ pnl # panel
    /\ \/ pnl = [panel EXCEPT !.family = pnl.family]
       \/ pnl = [panel EXCEPT !.size = pnl.size]
       \/ pnl = [panel EXCEPT !.color = pnl.color]
    /\ panel' = pnl
    /\ LET T == Apply([heap |-> text_heap, items |-> text_items, sel |-> selected_text,
                       drag |-> text_drag], pnl)
       IN  /\ Len(T.items) <= MaxTextItems
           /\ text_heap' = T.heap
           /\ text_items' = T.items
           /\ selected_text' = T.sel
    /\ UNCHANGED <<alive, view_vars, thumb_vars, tool_vars, redact_vars, texts_by_page,
                   entries, text_drag, mouse_vars, export_vars>>

(***************************************************************************)
(* Mouse events on the page canvas, dispatched to the bound handlers.      *)
(***************************************************************************)
\* <Button-1>
Press(pt) ==
    /\ alive
    /\ share_dialogs = 0
    /\ ~button_down
    /\ button_down' = TRUE
    /\ CASE canvas_binds = "redact" ->
              /\ redact_start(pt)
              /\ UNCHANGED <<redactions_by_page, text_vars>>
         [] canvas_binds = "text" ->
              /\ text_click(pt)
              /\ UNCHANGED redact_vars
         [] OTHER -> UNCHANGED <<redact_vars, text_vars>>
    /\ UNCHANGED <<alive, view_vars, thumb_vars, tool_vars, share_dialogs, export_vars>>

\* <B1-Motion>
Drag(pt) ==
    /\ alive
    /\ button_down
    /\ CASE canvas_binds = "redact" ->
              /\ redact_drag(pt)
              /\ UNCHANGED <<redactions_by_page, text_vars>>
         [] canvas_binds = "text" ->
              /\ text_drag_move(pt)
              /\ UNCHANGED <<redact_vars, texts_by_page, entries, text_drag, panel, text_heap>>
         [] OTHER -> UNCHANGED <<redact_vars, text_vars>>
    /\ UNCHANGED <<alive, view_vars, thumb_vars, tool_vars, mouse_vars, export_vars>>

\* <ButtonRelease-1>
Release ==
    /\ alive
    /\ button_down
    /\ button_down' = FALSE
    /\ CASE canvas_binds = "redact" ->
              /\ redact_finish
              /\ UNCHANGED text_vars
         [] canvas_binds = "text" ->
              /\ text_drag_drop
              /\ UNCHANGED <<redact_vars, texts_by_page, text_items, entries, panel>>
         [] OTHER -> UNCHANGED <<redact_vars, text_vars>>
    /\ UNCHANGED <<alive, view_vars, thumb_vars, tool_vars, share_dialogs, export_vars>>

\* <Button-3>
RightClick(pt) ==
    /\ alive
    /\ share_dialogs = 0
    /\ CASE canvas_binds = "redact" ->
              /\ redact_right_click(pt)
              /\ UNCHANGED text_vars
         [] canvas_binds = "text" ->
              /\ text_right_click(pt)
              /\ UNCHANGED <<redact_vars, entries, panel, text_heap>>
         [] OTHER -> UNCHANGED <<redact_vars, text_vars>>
    /\ UNCHANGED <<alive, view_vars, thumb_vars, tool_vars, mouse_vars, export_vars>>

(***************************************************************************)
(* Coordinate mapping (lines 364-424).                                     *)
(***************************************************************************)
Clamp(v, lo, hi) == Max(lo, Min(hi, v))

\* a mapping that scales by the size of the canvas instead of the image
canvas_to_pdf_point_canvas(p, x, y, ph, fit, cs) ==
    LET off2x == IF fit THEN cs[1] - ph.w ELSE 0
        off2y == IF fit THEN cs[2] - ph.h ELSE 0
        rel2x == Clamp(2 * x - off2x, 0, 2 * ph.w)
        rel2y == Clamp(2 * y - off2y, 0, 2 * ph.h)
    IN  << Frac(rel2x * PageRect(p).w, 2 * cs[1]),
           Frac(2 * cs[2] * PageRect(p).h - rel2y * PageRect(p).h, 2 * cs[2]) >>

\* a mapping that rounds page coordinates down to whole points
canvas_to_pdf_point_floor(p, x, y, ph, fit, cs) ==
    LET off2x == IF fit THEN cs[1] - ph.w ELSE 0
        off2y == IF fit THEN cs[2] - ph.h ELSE 0
        rel2x == Clamp(2 * x - off2x, 0, 2 * ph.w)
        rel2y == Clamp(2 * y - off2y, 0, 2 * ph.h)
    IN  << <<(rel2x * PageRect(p).w) \div (2 * ph.w), 1>>,
           <<PageRect(p).h - (rel2y * PageRect(p).h) \div (2 * ph.h), 1>> >>

\* _canvas_to_pdf_point with self._page_photo = ph (set), self.fit_to_window
\* = fit and the canvas of size cs.  Offsets are halves of integers, so the
\* image-relative position is kept doubled: rel2 = 2 * rel.
canvas_to_pdf_point(p, x, y, ph, fit, cs) ==
    LET pdf_width == PageRect(p).w
        pdf_height == PageRect(p).h
        off2x == cs[1] - ph.w
        off2y == cs[2] - ph.h
        outside == \/ 2 * x - off2x < 0 \/ 2 * x - off2x > 2 * ph.w
                   \/ 2 * y - off2y < 0 \/ 2 * y - off2y > 2 * ph.h
        rel2x == IF fit
                 THEN IF outside THEN Clamp(2 * x - off2x, 0, 2 * ph.w) ELSE 2 * x - off2x
                 ELSE 2 * x
        rel2y == IF fit
                 THEN IF outside THEN Clamp(2 * y - off2y, 0, 2 * ph.h) ELSE 2 * y - off2y
                 ELSE 2 * y
    IN  << Frac(rel2x * pdf_width, 2 * ph.w),
           Frac(2 * ph.h * pdf_height - rel2y * pdf_height, 2 * ph.h) >>

\* a rectangle mapping that keeps the corners in the order given
canvas_rect_as_given(p, c, ph, fit, cs) ==
    LET p0 == canvas_to_pdf_point(p, c[1], c[2], ph, fit, cs)
        p1 == canvas_to_pdf_point(p, c[3], c[4], ph, fit, cs)
    IN  << p0[1], p0[2], p1[1], p1[2] >>

\* _canvas_rect_to_pdf_rect (lines 414-424)
canvas_rect_to_pdf_rect(p, c, ph, fit, cs) ==
    LET p0 == canvas_to_pdf_point(p, c[1], c[2], ph, fit, cs)
        p1 == canvas_to_pdf_point(p, c[3], c[4], ph, fit, cs)
    IN  << FracMin(p0[1], p1[1]), FracMin(p0[2], p1[2]),
           FracMax(p0[1], p1[1]), FracMax(p0[2], p1[2]) >>

\* no call of the mapper yet
NoCall == [kind |-> "none", page |-> 0, at |-> <<>>, ph |-> None, fit |-> TRUE,
           cs |-> <<1, 1>>, raised |-> FALSE, result |-> <<>>]

\* a call self._canvas_to_pdf_point(p, x, y): __init__ assigns _page_photo
\* (line 102), so hasattr is true (line 374) and the fallback of line 375 is
\* never taken; with _page_photo None, line 378 raises AttributeError
PointCall(p, x, y, ph, fit, cs) ==
    IF ~ph.set
    THEN [raised |-> TRUE, result |-> <<>>]
    ELSE [raised |-> FALSE, result |-> canvas_to_pdf_point(p, x, y, ph, fit, cs)]

\* a call self._canvas_rect_to_pdf_rect(p, x0, y0, x1, y1)
RectCall(p, c, ph, fit, cs) ==
    IF ~ph.set
    THEN [raised |-> TRUE, result |-> <<>>]
    ELSE [raised |-> FALSE, result |-> canvas_rect_to_pdf_rect(p, c, ph, fit, cs)]

\* pixel coordinates the mapper is called with: left of and above every
\* image, two neighbours inside every image, right of and below every image
Probes == { <<0, 0>>, <<40, 40>>, <<41, 40>>, <<130, 130>> }

\* _canvas_to_pdf_point(p, x, y) is called in the present view
MapPoint(p, pt) ==
    /\ alive
    /\ LET r == PointCall(p, pt[1], pt[2], page_photo, fit_to_window, canvas_size)
       IN  mapped' = [kind |-> "point", page |-> p, at |-> pt, ph |-> page_photo,
                      fit |-> fit_to_window, cs |-> canvas_size,
                      raised |-> r.raised, result |-> r.result]
    /\ UNCHANGED <<alive, view_vars, thumb_vars, tool_vars, redact_vars, text_vars,
                   mouse_vars, files, last_export>>

\* _canvas_rect_to_pdf_rect(p, x0, y0, x1, y1) is called in the present view
MapRect(p, c) ==
    /\ alive
    /\ LET r == RectCall(p, c, page_photo, fit_to_window, canvas_size)
       IN  mapped' = [kind |-> "rect", page |-> p, at |-> c, ph |-> page_photo,
                      fit |-> fit_to_window, cs |-> canvas_size,
                      raised |-> r.raised, result |-> r.result]
    /\ UNCHANGED <<alive, view_vars, thumb_vars, tool_vars, redact_vars, text_vars,
                   mouse_vars, files, last_export>>

(***************************************************************************)
(* Export (lines 862-1021).                                                *)
(***************************************************************************)
\* _hex_to_rgb01 (lines 862-870) on the colours of the panel, in 255ths
hex_to_rgb01(hex) ==
    CASE hex = "#000000" -> <<0, 0, 0>>
      [] hex = "#FF0000" -> <<255, 0, 0>>
      [] hex = "#0000FF" -> <<0, 0, 255>>
      [] hex = "#00FF00" -> <<0, 255, 0>>
      [] hex = "#FFFF00" -> <<255, 255, 0>>
      [] hex = "#FF00FF" -> <<255, 0, 255>>

\* str.lower() of one character
LowerChar(c) ==
    CASE c = "A" -> "a" [] c = "B" -> "b" [] c = "C" -> "c" [] c = "D" -> "d"
      [] c = "E" -> "e" [] c = "F" -> "f" [] c = "G" -> "g" [] c = "H" -> "h"
      [] c = "I" -> "i" [] c = "J" -> "j" [] c = "K" -> "k" [] c = "L" -> "l"
      [] c = "M" -> "m" [] c = "N" -> "n" [] c = "O" -> "o" [] c = "P" -> "p"
      [] c = "Q" -> "q" [] c = "R" -> "r" [] c = "S" -> "s" [] c = "T" -> "t"
      [] c = "U" -> "u" [] c = "V" -> "v" [] c = "W" -> "w" [] c = "X" -> "x"
      [] c = "Y" -> "y" [] c = "Z" -> "z" [] OTHER -> c

RECURSIVE LowerFrom(_, _)
\* str.lower() of the characters of s from the i-th on
LowerFrom(s, i) ==
    IF i > Len(s) THEN ""
    ELSE LowerChar(SubSeq(s, i, i)) \o LowerFrom(s, i + 1)

\* str.lower()
Lower(s) == LowerFrom(s, 1)

\* needle in hay, for strings
Contains(hay, needle) ==
    \E h \in {hay}, n \in {needle} :
        \E i \in 1 .. (Len(h) - Len(n) + 1) : SubSeq(h, i, i + Len(n) - 1) = n

\* the export fonts (Base-14 names) of self._font_map (lines 138-142)
FitzName(label) ==
    CASE label = "Sans (Helvetica)" -> "helv"
      [] label = "Serif (Times)" -> "times"
      [] label = "Mono (Courier)" -> "cour"

\* a mapping that knows the three Tk families of _font_map as written and
\* nothing else
fitz_font_exact(tk_family) ==
    CASE tk_family = "Helvetica" -> "helv"
      [] tk_family = "Times New Roman" -> "times"
      [] tk_family = "Courier New" -> "cour"
      [] OTHER -> "helv"

\* _fitz_font_from_tk (lines 872-882); a missing family (None) is the empty
\* string, which "tk_family or ''" makes of it
fitz_font_from_tk(tk_family) ==
    LET Mapped(name) ==
            LET found == { i \in 1 .. Len(FontLabels) :
                               Contains(name, Lower(TkFamily(FontLabels[i]))) }
            IN  IF found # {}
                THEN FitzName(FontLabels[CHOOSE i \in found : \A j \in found : i <= j])
                ELSE IF Contains(name, "time") \/ Contains(name, "georgia")
                            \/ Contains(name, "serif")
                     THEN "times"
                ELSE IF Contains(name, "cour") \/ Contains(name, "mono")
                     THEN "cour"
                ELSE "helv"
    IN  CHOOSE r \in { Mapped(name) : name \in { Lower(tk_family) } } : TRUE

\* family names _fitz_font_from_tk is called with: the three of _font_map,
\* names that contain one or two of them in other case, names that contain
\* none, and the missing name
FontProbes == { "", "Helvetica", "Times New Roman", "Courier New",
                "helvetica neue", "COURIER NEW Bold", "Courier New Times New Roman",
                "Arial", "Georgia", "Courier", "Times", "MS Sans Serif",
                "DejaVu Sans Mono" }

\* self._fitz_font_from_tk(fam) is called
MapFont(fam) ==
    /\ alive
    /\ mapped' = [kind |-> "font", page |-> 0, at |-> <<fam>>, ph |-> None, fit |-> TRUE,
                  cs |-> <<1, 1>>, raised |-> FALSE, result |-> fitz_font_from_tk(fam)]
    /\ UNCHANGED <<alive, view_vars, thumb_vars, tool_vars, redact_vars, text_vars,
                   mouse_vars, files, last_export>>

\* the opened document (self.pdf_document, line 152): each page with its
\* content, named by the page's index, and its rectangle
SourceDoc == [i \in 1 .. NumPages |-> [content |-> i - 1, rect |-> PageRect(i - 1)]]

\* an insert_pdf that appends the pages of src last page first
insert_pdf_reversed(doc, src) == doc \o [i \in 1 .. Len(src) |-> src[Len(src) + 1 - i]]

\* out.insert_pdf(src) (line 888): the pages of src are appended to doc, in
\* their order
insert_pdf(doc, src) == doc \o src

\* the running state of one _export_with_overlays call:
\*   pages         the pages of the output document (out)
\*   cur, ph, aft  self.current_page, self._page_photo, pending callbacks
\*   shown         display_page has rendered during the export
\*   failed        an exception left the loop (self._page_photo is None)
\*   out           per page, the rectangles drawn and the texts inserted
\*   inserts       how the insertion of each text went, in the order processed
\*   currents      the values assigned to self.current_page, in order
ExportStart ==
    [cur |-> current_page, ph |-> page_photo, aft |-> display_after, shown |-> FALSE,
     failed |-> FALSE, out |-> [p \in Pages |-> [rects |-> <<>>, texts |-> <<>>]],
     inserts |-> <<>>, pages |-> insert_pdf(<<>>, SourceDoc), currents |-> <<>>]

\* display_page called inside the export (lines 910, 954)
ExportShow(E) ==
    CHOOSE r \in { IF Big(canvas_size)
                   THEN [E0 EXCEPT !.ph = Render(E0.cur, fit_to_window, zoom, canvas_size),
                                   !.shown = TRUE]
                   ELSE [E0 EXCEPT !.aft = @ + 1] : E0 \in {E} } : TRUE

\* lines 895-899 for the rectangle c of page p
ExportRect(E, p, c) ==
    IF E.failed THEN E
    ELSE IF ~E.ph.set THEN [E EXCEPT !.failed = TRUE]
    ELSE [E EXCEPT !.out[p].rects =
              Append(@, canvas_rect_to_pdf_rect(p, c, E.ph, fit_to_window, canvas_size))]

\* how page.insert_text can go for one text (lines 929-950): the call with
\* the mapped font succeeds; it raises and the call without a font name
\* succeeds; both raise
InsertOutcomes == { "ok", "retried", "skipped" }
\* page.insert_text calls made for one text
Attempts(outcome) == IF outcome = "ok" THEN 1 ELSE 2
\* the font insert_text uses when no fontname is passed
DefaultFont == "helv"

\* a baseline a whole font size below the mapped point
BaselineFull(td, pt) == <<pt[1], FracAdd(pt[2], <<td.size, 1>>)>>

\* the point insert_text is given (lines 912-920): the baseline lies
\* size * 0.8 below the mapped point
Baseline(td, pt) == <<pt[1], FracAdd(pt[2], Frac(td.size * 4, 5))>>

\* the text object insert_text places for the dict td (lines 930-936, 942-947)
Inserted(td, pt, fontname) ==
    [x |-> Baseline(td, pt)[1], y |-> Baseline(td, pt)[2], text |-> td.text,
     fontsize |-> td.size, fontname |-> fontname, color |-> hex_to_rgb01(td.color)]

\* an insertion that gives up after the first failure
InsertTextOnce(texts, td, pt, outcome) ==
    IF outcome = "ok"
    THEN Append(texts, [x |-> Baseline(td, pt)[1], y |-> Baseline(td, pt)[2],
                        text |-> td.text, fontsize |-> td.size,
                        fontname |-> fitz_font_from_tk(td.font),
                        color |-> hex_to_rgb01(td.color)])
    ELSE texts

\* lines 929-950: what the page holds after the insertion went as outcome
InsertText(texts, td, pt, outcome) ==
    CASE outcome = "ok" -> Append(texts, Inserted(td, pt, fitz_font_from_tk(td.font)))
      [] outcome = "retried" -> Append(texts, Inserted(td, pt, DefaultFont))
      [] outcome = "skipped" -> texts

\* lines 903-954 for the text dict td of page p, its insertion going as outcome
\* E1 (the page is shown) and pt (the mapped point) are values of their own,
\* each computed once
ExportText(E, p, td, outcome) ==
    IF E.failed THEN E
    ELSE LET old_page == E.cur
             Placed(E1, pt) ==
                 LET E2 == [E1 EXCEPT !.out[p].texts = InsertText(@, td, pt, outcome),
                                      !.inserts = Append(@, outcome)]
                 IN  IF old_page # p
                     THEN ExportShow([E2 EXCEPT !.cur = old_page,
                                                !.currents = Append(@, old_page)])
                     ELSE E2
             Shown(E1) ==
                 IF ~E1.ph.set THEN [E1 EXCEPT !.failed = TRUE]
                 ELSE CHOOSE r \in { Placed(E1, pt) :
                                         pt \in { canvas_to_pdf_point(
                                                      p, td.x, td.y, E1.ph,
                                                      fit_to_window, canvas_size) } } : TRUE
         IN  CHOOSE r \in { Shown(E1) :
                                E1 \in { IF p # E.cur
                                         THEN ExportShow([E EXCEPT !.cur = p,
                                                                   !.currents = Append(@, p)])
                                         ELSE E } } : TRUE

RECURSIVE ExportRects(_, _, _)
\* the rectangles of page p from the i-th on (lines 894-899); the state after
\* each one is a value of its own (E1), computed once
ExportRects(E, p, i) ==
    IF i > Len(redactions_by_page[p]) THEN E
    ELSE CHOOSE r \in { ExportRects(E1, p, i + 1) :
                            E1 \in { ExportRect(E, p, redactions_by_page[p][i]) } } : TRUE

\* ins tells how the insertions go, in the order the texts are processed
RECURSIVE ExportTexts(_, _, _, _)
ExportTexts(E, p, i, ins) ==
    IF i > Len(texts_by_page[p]) THEN E
    ELSE CHOOSE r \in { ExportTexts(E1, p, i + 1, ins) :
                            E1 \in { ExportText(E, p, text_heap[texts_by_page[p][i]],
                                                ins[Len(E.inserts) + 1]) } } : TRUE

RECURSIVE ExportPages(_, _, _)
\* the loop over the pages (line 890)
ExportPages(E, p, ins) ==
    IF p >= NumPages THEN E
    ELSE CHOOSE r \in { ExportPages(E2, p + 1, ins) :
                            E2 \in { ExportTexts(E1, p, 1, ins) :
                                         E1 \in { ExportRects(E0, p, 1) : E0 \in {E} } } } : TRUE

\* the ways the insertions of an export can go: one outcome per text
Inserts == [1 .. Len(text_heap) -> InsertOutcomes]
AllOk == [u \in 1 .. Len(text_heap) |-> "ok"]

\* the stored overlays by value, as the export reads them
RECURSIVE Deref(_, _)
Deref(refs, heap) ==
    IF refs = <<>> THEN <<>> ELSE <<heap[Head(refs)]>> \o Deref(Tail(refs), heap)

StoreValue ==
    [reds |-> redactions_by_page,
     texts |-> [p \in Pages |-> Deref(texts_by_page[p], text_heap)]]

Paths == { "chosen", "temp" }

\* an export that empties the redaction store as it goes
export_store_consumed ==
    /\ redactions_by_page' = [p \in Pages |-> <<>>]
    /\ UNCHANGED <<texts_by_page, text_heap>>

\* the stores under _export_with_overlays: lines 884-957 read
\* _redactions_by_page and _texts_by_page and assign to neither
export_store == UNCHANGED <<redactions_by_page, texts_by_page, text_heap>>

\* _export_with_overlays(target_path) (lines 884-957); saved tells whether
\* out.save succeeds. E is the state the loop ends in.
export_with_overlays(target, saved, E) ==
    /\ E.aft <= MaxAfter
    /\ current_page' = E.cur
    /\ page_photo' = E.ph
    /\ display_after' = E.aft
    /\ IF E.shown
       THEN /\ redact_items' = RestoreRedactions(redactions_by_page, E.cur)
            /\ text_items' = RestoreTexts(texts_by_page, text_heap, E.cur)
            /\ redact_overlay' = IF redact_overlay.set
                                 THEN [redact_overlay EXCEPT !.current_item = Dangle(@)]
                                 ELSE redact_overlay
            /\ selected_text' = IF selected_text.set
                                THEN [selected_text EXCEPT !.item = Dangle(@)]
                                ELSE selected_text
            /\ text_drag' = IF text_drag.set
                            THEN [text_drag EXCEPT !.item = Dangle(@)]
                            ELSE text_drag
       ELSE UNCHANGED <<redact_items, text_items, redact_overlay, selected_text, text_drag>>
    /\ last_export' = [status |-> IF E.failed THEN "raised"
                                  ELSE IF saved THEN "saved" ELSE "save failed",
                       target |-> target, inserts |-> E.inserts, pages |-> E.pages]
    /\ export_store

\* whether the call raised to its caller
Raised(saved, E) == E.failed \/ ~saved

export_frame ==
    UNCHANGED <<alive, fit_to_window, zoom, canvas_size, thumb_vars, tool_vars, entries,
                panel, button_down, mapped>>

\* do_save (lines 974-990) with the path the file dialog returns
do_save(path, saved, ins) ==
    /\ alive
    /\ share_dialogs > 0
    /\ IF path = ""
       THEN UNCHANGED vars
       ELSE /\ export_frame
            /\ LET E == ExportPages(ExportStart, 0, ins) IN
               /\ export_with_overlays(path, saved, E)
               /\ files' = IF Raised(saved, E) THEN files ELSE [files EXCEPT ![path] = "pdf"]
               /\ share_dialogs' = IF Raised(saved, E) THEN share_dialogs
                                   ELSE share_dialogs - 1

\* do_mail (lines 992-1021): the temporary file exists, empty, before the
\* export starts (NamedTemporaryFile(delete=False), line 994)
do_mail(saved, ins) ==
    /\ alive
    /\ share_dialogs > 0
    /\ export_frame
    /\ LET E == ExportPages(ExportStart, 0, ins) IN
       /\ export_with_overlays("temp", saved, E)
       /\ files' = [files EXCEPT !["temp"] = IF Raised(saved, E) THEN "empty" ELSE "pdf"]
       /\ share_dialogs' = IF Raised(saved, E) THEN share_dialogs ELSE share_dialogs - 1

\* the user closes a Share/Save dialog
close_dialog ==
    /\ alive
    /\ share_dialogs > 0
    /\ share_dialogs' = share_dialogs - 1
    /\ UNCHANGED <<alive, view_vars, thumb_vars, tool_vars, redact_vars, text_vars,
                   button_down, export_vars>>

(***************************************************************************)
(* Initial state: the viewer as __init__ leaves it (lines 93-147).  The    *)
(* first thumbnail batch has run (line 211); the canvas is not laid out    *)
(* yet, so display_page has only scheduled itself (line 1147).             *)
(***************************************************************************)
Init ==
    /\ alive = TRUE
    /\ current_page = 0
    /\ fit_to_window = TRUE
    /\ zoom = base_zoom
    /\ canvas_size = <<1, 1>>
    /\ page_photo = None
    /\ display_after = 1
    /\ thumbnail_cache = EnsureRange(<<>>, 0, BatchEnd(0))
    /\ access_order = TouchRange(<<>>, 0, BatchEnd(0))
    /\ thumb_batch_idx = BatchEnd(0)
    /\ thumb_after = (BatchEnd(0) < NumPages)
    /\ active_tool = ""
    /\ canvas_binds = "none"
    /\ root_arrows = "nav"
    /\ text_overlay = "absent"
    /\ text_panel = FALSE
    /\ redact_overlay = None
    /\ redactions_by_page = [p \in Pages |-> <<>>]
    /\ redact_items = <<>>
    /\ texts_by_page = [p \in Pages |-> <<>>]
    /\ text_items = <<>>
    /\ entries = <<>>
    /\ selected_text = None
    /\ text_drag = None
    /\ panel = PanelDefault
    /\ text_heap = <<>>
    /\ button_down = FALSE
    /\ share_dialogs = 0
    /\ files = [f \in Paths |-> "absent"]
    /\ last_export = [status |-> "none", target |-> "", inserts |-> <<>>, pages |-> <<>>]
    /\ mapped = NoCall

(***************************************************************************)
(* Specifications.                                                         *)
(***************************************************************************)
NavNext ==
    \/ \E p \in 0 .. NumPages : ThumbClick(p)
    \/ \E d \in {-1, 1} : Wheel(d)
    \/ KeyRightNav
    \/ KeyLeftNav
    \/ \E cs \in CanvasSizes : Configure(cs)
    \/ DisplayAfter

\* thumbnails and navigation
ThumbNext ==
    \/ schedule_thumb_batch
    \/ NavNext

SpecThumb == Init /\ [][ThumbNext]_vars

\* the same, with the event loop running: a callback scheduled with
\* root.after (line 1116) fires in the end, whatever the user does meanwhile
SpecThumbLive == Init /\ [][ThumbNext]_vars /\ WF_vars(schedule_thumb_batch)

\* the redaction tool, with navigation between the first two pages
RedactNext ==
    \/ on_redact
    \/ ToolOff("redact")
    \/ \E pt \in Points : Press(pt)
    \/ \E pt \in Points : Drag(pt)
    \/ Release
    \/ \E pt \in Points : RightClick(pt)
    \/ \E dim \in {"h", "w"}, delta \in {NudgeStep, -NudgeStep} : adjust_redact(dim, delta)
    \/ delete_redact
    \/ \E p \in {0, 1} : ThumbClick(p)
    \/ \E cs \in CanvasSizes : Configure(cs)
    \/ DisplayAfter

SpecRedact == Init /\ [][RedactNext]_vars

Panels == [family : PanelFamilies, size : PanelSizes, color : PanelColors]

\* pointer positions of the text gestures: along one line
TextPoints == { pt \in Points : pt[2] = PlaneLo }

\* the text tool: place, confirm, cancel, select, drag, resize, delete
TextNext ==
    \/ on_write
    \/ ToolOff("write")
    \/ \E pt \in TextPoints : Press(pt)
    \/ \E pt \in TextPoints : Drag(pt)
    \/ Release
    \/ \E pt \in TextPoints : RightClick(pt)
    \/ \E e \in 1 .. MaxEntries, text \in Typed : save_text(e, text)
    \/ \E e \in 1 .. MaxEntries : entry_escape(e)
    \/ \E size \in PanelSizes : PanelSet([panel EXCEPT !.size = size])
    \/ \E cs \in CanvasSizes : Configure(cs)
    \/ DisplayAfter

SpecText == Init /\ [][TextNext]_vars

\* pointer positions of the gestures that place overlays for an export
ExportPoints == { pt \in Points : pt[1] = pt[2] }

\* overlays are placed, the view changes, and the document is exported;
\* rectangles are drawn, texts are placed at one position and not dragged,
\* every insertion of a text succeeds at once,
\* pages are turned and the fit is toggled once the canvas is laid out
ExportNext ==
    \/ on_redact
    \/ on_write
    \/ \E pt \in ExportPoints : (canvas_binds = "text" => pt[1] = PlaneLo) /\ Press(pt)
    \/ \E pt \in ExportPoints : canvas_binds = "redact" /\ Drag(pt)
    \/ Release
    \/ \E e \in 1 .. MaxEntries : save_text(e, <<"a">>)
    \/ \E p \in {0, 1} : Big(canvas_size) /\ ThumbClick(p)
    \/ \E cs \in CanvasSizes : Big(cs) /\ Configure(cs)
    \/ Big(canvas_size) /\ toggle_fit
    \/ on_share
    \/ \E path \in {"", "chosen"}, saved \in BOOLEAN : do_save(path, saved, AllOk)
    \/ \E saved \in BOOLEAN : do_mail(saved, AllOk)
    \/ close_dialog

SpecExport == Init /\ [][ExportNext]_vars

\* overlays are placed on a laid-out canvas and the document is saved, the
\* insertions of its texts going every way they can
InsertNext ==
    \/ on_redact
    \/ on_write
    \/ \E pt \in ExportPoints : (canvas_binds = "text" => pt[1] = PlaneLo) /\ Press(pt)
    \/ \E pt \in ExportPoints :
           canvas_binds = "redact" /\ redact_overlay.mode = "draw" /\ Drag(pt)
    \/ Release
    \/ \E e \in 1 .. MaxEntries : save_text(e, <<"a">>)
    \/ \E p \in {0, 1} : Big(canvas_size) /\ ThumbClick(p)
    \/ \E cs \in CanvasSizes : Big(cs) /\ Configure(cs)
    \/ on_share
    \/ \E saved \in BOOLEAN, ins \in Inserts : do_save("chosen", saved, ins)
    \/ close_dialog

SpecInsert == Init /\ [][InsertNext]_vars

\* texts are placed and confirmed, pages are turned and the document is
\* saved, from the moment the window opens: before, while and after the
\* canvas is laid out
TextExportNext ==
    \/ on_write
    \/ Press(<<PlaneLo, PlaneLo>>)
    \/ Release
    \/ \E e \in 1 .. MaxEntries : save_text(e, <<"a">>)
    \/ \E p \in {0, 1} : ThumbClick(p)
    \/ \E cs \in CanvasSizes : Configure(cs)
    \/ DisplayAfter
    \/ on_share
    \/ \E saved \in BOOLEAN, ins \in Inserts : do_save("chosen", saved, ins)
    \/ close_dialog

SpecTextExport == Init /\ [][TextExportNext]_vars

\* rectangles the mapper is called with: a corner inside every image and one
\* past it, in each order per axis, and a rectangle from before the image
ProbeRects == { <<40, 40, 130, 130>>, <<130, 40, 40, 130>>, <<40, 130, 130, 40>>,
                <<0, 0, 41, 40>> }

\* the coordinate mapper, called in every view the viewer can be brought to
\* by laying out the canvas, turning pages, fitting and resetting the zoom
MapNext ==
    \/ \E cs \in CanvasSizes : Configure(cs)
    \/ DisplayAfter
    \/ toggle_fit
    \/ zoom_reset
    \/ \E p \in {0, 1} : ThumbClick(p)
    \/ \E p \in {0, 1}, pt \in Probes : MapPoint(p, pt)
    \/ \E p \in {0, 1}, c \in ProbeRects : MapRect(p, c)

SpecMap == Init /\ [][MapNext]_vars

\* indices goto_page is called with: every page, and one before and one
\* past the document
NavTargets == (0 - 1) .. NumPages

\* pages are turned by thumbnail, wheel and arrow keys, texts are placed,
\* and the document is saved, before and after the canvas is laid out
PageNext ==
    \/ \E p \in NavTargets : ThumbClick(p)
    \/ \E d \in {-1, 1} : Wheel(d)
    \/ KeyRightNav
    \/ KeyLeftNav
    \/ \E cs \in CanvasSizes : Configure(cs)
    \/ DisplayAfter
    \/ on_write
    \/ Press(<<PlaneLo, PlaneLo>>)
    \/ Release
    \/ \E e \in 1 .. MaxEntries : save_text(e, <<"a">>)
    \/ on_share
    \/ \E saved \in BOOLEAN : do_save("chosen", saved, AllOk)
    \/ close_dialog

SpecPage == Init /\ [][PageNext]_vars

ToolNames == { "stamp", "write", "esign", "redact" }

\* the tool rows and their keys s, w, e, r, t, the Escape key and the arrow
\* keys, while the canvas is laid out and the Share/Save dialog comes and goes
ToolNext ==
    \/ on_write
    \/ on_redact
    \/ \E name \in { "stamp", "esign" } : on_plain(name)
    \/ \E name \in ToolNames : ToolOff(name)
    \/ on_share
    \/ close_dialog
    \/ KeyEscape
    \/ KeyRightNav
    \/ KeyLeftNav
    \/ \E cs \in CanvasSizes : Configure(cs)
    \/ DisplayAfter

SpecTool == Init /\ [][ToolNext]_vars

\* steps the zoom handlers are called with, in hundredths: the default 0.1
\* and macOS Ctrl+wheel (lines 1217, 1223, 1281), Windows Ctrl+wheel 0.15
\* (line 1273)
ZoomSteps == { 10, 15 }

\* the zoom handlers and the fit switch, before and after the canvas is
\* laid out
ZoomNext ==
    \/ \E step \in ZoomSteps : zoom_in(step)
    \/ \E step \in ZoomSteps : zoom_out(step)
    \/ zoom_reset
    \/ toggle_fit
    \/ \E cs \in CanvasSizes : Configure(cs)
    \/ DisplayAfter

SpecZoom == Init /\ [][ZoomNext]_vars

\* the font mapper, called with every family name while pages are turned
FontNext ==
    \/ \E p \in Pages : ThumbClick(p)
    \/ \E cs \in CanvasSizes : Configure(cs)
    \/ DisplayAfter
    \/ \E fam \in FontProbes : MapFont(fam)

SpecFont == Init /\ [][FontNext]_vars

\* every event the model knows
Next ==
    \/ ThumbNext
    \/ RedactNext
    \/ \E pt \in Points : Press(pt) \/ Drag(pt) \/ RightClick(pt)
    \/ TextNext
    \/ \E pnl \in Panels : PanelSet(pnl)
    \/ ExportNext
    \/ InsertNext
    \/ \E path \in {"", "chosen"}, saved \in BOOLEAN, ins \in Inserts : do_save(path, saved, ins)
    \/ \E saved \in BOOLEAN, ins \in Inserts : do_mail(saved, ins)
    \/ TextExportNext
    \/ MapNext
    \/ FontNext
    \/ ToolNext
    \/ PageNext
    \/ ZoomNext
    \/ close_viewer

Spec == Init /\ [][Next]_vars

(***************************************************************************)
(* Redaction store.                                                        *)
(***************************************************************************)
\* every rectangle of the store is at least MinRedact wide and high
StoredBig ==
    \A p \in Pages : \A i \in 1 .. Len(redactions_by_page[p]) :
        LET c == redactions_by_page[p][i]
        IN  Abs(c[3] - c[1]) >= MinRedact /\ Abs(c[4] - c[2]) >= MinRedact

\* the button is released over a rectangle being drawn that is too small
SmallRelease ==
    /\ button_down /\ ~button_down'
    /\ canvas_binds = "redact"
    /\ redact_overlay.set
    /\ redact_overlay.mode = "draw"
    /\ Live(redact_overlay.current_item)
    /\ LET c == redact_items[redact_overlay.current_item]
       IN  Abs(c[3] - c[1]) < MinRedact \/ Abs(c[4] - c[2]) < MinRedact

\* C1: whatever gestures and navigations have happened, every stored
\* redaction rectangle is at least 5 pixels wide and 5 pixels high; releasing a
\* draw gesture over a rectangle less than 5 wide or high leaves the store as
\* it was and takes the rectangle off the canvas.
C1_NoSmallRedaction ==
    /\ []StoredBig
    /\ [][SmallRelease =>
            /\ redactions_by_page' = redactions_by_page
            /\ redact_items' = RemoveAt(redact_items, redact_overlay.current_item)]_vars

\* a rectangle of exactly the minimum size was drawn and stored
C1_Witness ==
    /\ ~button_down
    /\ redact_overlay.set
    /\ \E i \in 1 .. Len(redactions_by_page[current_page]) :
           LET c == redactions_by_page[current_page][i]
           IN  /\ c[3] - c[1] = MinRedact
               /\ c[4] - c[2] = MinRedact
               /\ c \in SeqSet(redact_items)

\* every rectangle on the canvas has its entry in the store of the page shown
AllStored == Len(redactions_by_page[current_page]) = Len(redact_items)

\* a drag in move mode or a nudge has changed the current rectangle, which
\* was in the store
StoredChanged ==
    /\ redact_overlay.set
    /\ Live(redact_overlay.current_item)
    /\ AllStored
    /\ Len(redact_items') = Len(redact_items)
    /\ current_page' = current_page
    /\ page_photo' = page_photo
    /\ redact_items[redact_overlay.current_item]
           \in SeqSet(redactions_by_page[current_page])
    /\ redact_items'[redact_overlay.current_item]
           # redact_items[redact_overlay.current_item]

\* C7: when a drag moves or a key nudges a rectangle that is stored, the
\* store holds the rectangle's new coordinates afterwards.
C7_StoreFollowsGesture ==
    [][StoredChanged =>
          redact_items'[redact_overlay.current_item]
              \in SeqSet(redactions_by_page'[current_page])]_vars

\* a right click or the Delete key takes a rectangle off the canvas of the
\* page shown, every rectangle of which had its entry in the store
DeletedOnCanvas ==
    /\ redact_overlay.set
    /\ ~(button_down /\ ~button_down')
    /\ AllStored
    /\ current_page' = current_page
    /\ page_photo' = page_photo
    /\ Len(redact_items') = Len(redact_items) - 1

\* C8: deleting a rectangle shown on the current page, by a right click or by
\* the Delete key, removes its entry from the store too, whatever moves and
\* nudges came before.
C8_DeleteReachesStore ==
    [][DeletedOnCanvas =>
          Len(redactions_by_page'[current_page])
              = Len(redactions_by_page[current_page]) - 1]_vars

(***************************************************************************)
(* Text store.                                                             *)
(***************************************************************************)
\* a text that is empty or made of whitespace only
IsBlank(t) == \A k \in 1 .. Len(t) : t[k] \in Whitespace

NoBlankStored ==
    \A p \in Pages : \A i \in 1 .. Len(texts_by_page[p]) :
        ~IsBlank(text_heap[texts_by_page[p][i]].text)

\* <Return> in an entry holding a blank text
BlankConfirm == \E e \in 1 .. Len(entries), t \in Typed : IsBlank(t) /\ save_text(e, t)

\* C2: whatever text-tool operations have happened, no stored text is empty
\* or whitespace only; confirming an entry with such a text leaves the store
\* as it was.
C2_NoBlankText ==
    /\ []NoBlankStored
    /\ [][BlankConfirm => UNCHANGED <<texts_by_page, text_heap>>]_vars

\* a text that starts with whitespace but is not blank was confirmed and stored
C2_Witness ==
    \E p \in Pages : \E i \in 1 .. Len(texts_by_page[p]) :
        LET t == text_heap[texts_by_page[p][i]].text
        IN  t # <<>> /\ Head(t) \in Whitespace /\ ~IsBlank(t)

\* the button goes down on a text of the page shown, which starts a drag
TextGrab ==
    /\ canvas_binds = "text"
    /\ text_overlay = "active"
    /\ \E pt \in Points :
           /\ Press(pt)
           /\ FirstTextHit(text_items, pt) # 0
           /\ text_items[FirstTextHit(text_items, pt)].td
                  \in SeqSet(texts_by_page[current_page])

\* the button goes up while a text is being dragged
TextDrop ==
    /\ canvas_binds = "text"
    /\ text_drag.set
    /\ button_down /\ ~button_down'

SameStyle(a, b) ==
    a.text = b.text /\ a.font = b.font /\ a.size = b.size /\ a.color = b.color

\* C15: grabbing a text and dragging it changes no stored annotation, and
\* dropping it changes only the (x, y) of the dragged annotation, to the
\* position its canvas item was dragged to; the page's annotation sequence
\* and every text, font, size and colour stay as they were.
C15_DragMovesInPlace ==
    [][/\ (TextGrab \/ (\E pt \in Points : Drag(pt))) =>
              /\ texts_by_page' = texts_by_page
              /\ text_heap' = text_heap
       /\ TextDrop =>
              /\ texts_by_page' = texts_by_page
              /\ Len(text_heap') = Len(text_heap)
              /\ \A u \in 1 .. Len(text_heap) :
                     IF u = text_drag.td
                     THEN /\ SameStyle(text_heap'[u], text_heap[u])
                          /\ Live(text_drag.item) =>
                                 /\ text_heap'[u].x = text_items[text_drag.item].x
                                 /\ text_heap'[u].y = text_items[text_drag.item].y
                     ELSE text_heap'[u] = text_heap[u]]_vars

\* the font, size or colour of a stored annotation changes
StyleChanged ==
    \E u \in 1 .. Len(text_heap) :
        \/ text_heap'[u].font # text_heap[u].font
        \/ text_heap'[u].size # text_heap[u].size
        \/ text_heap'[u].color # text_heap[u].color

\* C24: a click that selects a text of the page shown leaves the stored
\* font, size and colour of every annotation as they were, whatever the
\* panel showed before, and loads those of the clicked text into the panel;
\* the stored font, size or colour of an annotation changes only in a step
\* in which the user changes a value of the panel.
C24_SelectKeepsStyle ==
    /\ [][TextGrab =>
            /\ ~StyleChanged
            /\ \E pt \in Points :
                   /\ Press(pt)
                   /\ LET td == text_heap[text_items[FirstTextHit(text_items, pt)].td]
                      IN  /\ TkFamily(panel'.family) = td.font
                          /\ panel'.size = td.size
                          /\ panel'.color = td.color]_vars
    /\ [][StyleChanged => \E pnl \in Panels : PanelSet(pnl)]_vars

\* <Return> in the entry e stores a text
Confirmed(e) == \E t \in Typed : save_text(e, t) /\ texts_by_page' # texts_by_page

\* C16: a confirmed text is stored under the page that was current at the
\* click that opened its entry, at the position of that click, whatever
\* page is current at the confirmation.
C16_StoredUnderClickPage ==
    [][\A e \in 1 .. Len(entries) : Confirmed(e) =>
          /\ Len(texts_by_page'[entries[e].page])
                 = Len(texts_by_page[entries[e].page]) + 1
          /\ LET lst == texts_by_page'[entries[e].page]
                 td == text_heap'[lst[Len(lst)]]
             IN  td.x = entries[e].x /\ td.y = entries[e].y]_vars

(***************************************************************************)
(* Export.                                                                 *)
(***************************************************************************)
\* a step in which _export_with_overlays runs
\* what a step records agrees with an export that goes as saved and ins tell
Recorded(target, saved, ins) ==
    /\ last_export'.target = target
    /\ last_export'.status = "saved" => saved
    /\ last_export'.status = "save failed" => ~saved
    /\ last_export'.inserts = SubSeq(ins, 1, Len(last_export'.inserts))

ExportStep ==
    /\ share_dialogs > 0
    /\ export_frame
    /\ \E saved \in BOOLEAN, ins \in Inserts :
           \/ Recorded("chosen", saved, ins) /\ do_save("chosen", saved, ins)
           \/ Recorded("temp", saved, ins) /\ do_mail(saved, ins)

\* what _export_with_overlays composes from the present state when every
\* insertion succeeds at once
Composed == ExportPages(ExportStart, 0, AllOk)

\* C3: in an export, every redaction rectangle stored for a page other than
\* the one displayed is mapped with the display dimensions of a rendering of
\* its own page.
C3_OwnPageRendering ==
    [][(ExportStep /\ ~Composed.failed) =>
          \A p \in Pages \ {current_page} :
              \A i \in 1 .. Len(redactions_by_page[p]) :
                  Composed.out[p].rects[i] =
                      canvas_rect_to_pdf_rect(
                          p, redactions_by_page[p][i],
                          Render(p, fit_to_window, zoom, canvas_size),
                          fit_to_window, canvas_size)]_vars

\* the view changes between two states that hold the same overlays on the
\* same canvas, each of which an export would run through
ViewChanged ==
    /\ StoreValue' = StoreValue
    /\ canvas_size' = canvas_size
    /\ <<current_page, fit_to_window, zoom>>' # <<current_page, fit_to_window, zoom>>
    /\ ~Composed.failed
    /\ ~Composed'.failed

\* C4: two exports of the same overlay store that differ only in the page
\* shown, the fit flag and the zoom factor place every rectangle and every
\* text at the same page-space coordinates.
C4_ViewIndependent == [][ViewChanged => Composed'.out = Composed.out]_vars

\* C5: an export that fails, from the save or from the mail path, has created
\* or left no file at its target path.
C5_NothingLeftOnFailure ==
    [][(ExportStep /\ last_export'.status # "saved") => files' = files]_vars

\* C6: an export, whether it returns or raises, leaves the redaction and text
\* stores exactly as they were.
C6_ExportKeepsStore == [][ExportStep => StoreValue' = StoreValue]_vars

\* a save has just failed, its dialog still open, on a store that holds a
\* rectangle and a text
C6_Witness ==
    /\ last_export.status = "save failed"
    /\ last_export.target = "chosen"
    /\ share_dialogs > 0
    /\ \E p \in Pages : redactions_by_page[p] # <<>>
    /\ \E p \in Pages : texts_by_page[p] # <<>>

\* no rectangle and no text is stored for any page
StoreEmpty == \A p \in Pages : redactions_by_page[p] = <<>> /\ texts_by_page[p] = <<>>

\* C23: an export with an empty overlay store raises nothing in composing
\* the document; the document has the pages of the source, as many, in the
\* same order and of the same dimensions; and nothing is drawn or inserted
\* on any page.
C23_EmptyExportKeepsPages ==
    [][(StoreEmpty /\ ExportStep) =>
          /\ last_export'.status # "raised"
          /\ Len(last_export'.pages) = NumPages
          /\ \A p \in Pages :
                 /\ last_export'.pages[p + 1].content = p
                 /\ last_export'.pages[p + 1].rect = PageRect(p)
          /\ last_export'.inserts = <<>>
          /\ \A p \in Pages : Composed.out[p] = [rects |-> <<>>, texts |-> <<>>]]_vars

\* a document was saved while the store was empty and a text entry was
\* open, not yet confirmed
C23_Witness ==
    /\ last_export.status = "saved"
    /\ StoreEmpty
    /\ files[last_export.target] = "pdf"
    /\ entries # <<>>

\* C14: an export leaves the current page index as it was before the export,
\* whether or not it displayed other pages on the way.
C14_PageRestored == [][ExportStep => current_page' = current_page]_vars

\* texts in the store, all pages together
TextCount == SumLen(texts_by_page, 0)

\* what the text objects of a page become when their insertions go as
\* outcomes tells: kept, placed with the default font, or left out
RECURSIVE Expected(_, _)
Expected(objs, outcomes) ==
    IF objs = <<>> THEN <<>>
    ELSE CASE Head(outcomes) = "ok" ->
                  <<Head(objs)>> \o Expected(Tail(objs), Tail(outcomes))
           [] Head(outcomes) = "retried" ->
                  <<[Head(objs) EXCEPT !.fontname = DefaultFont]>>
                      \o Expected(Tail(objs), Tail(outcomes))
           [] Head(outcomes) = "skipped" -> Expected(Tail(objs), Tail(outcomes))

\* texts stored for the pages before page p
RECURSIVE TextsBefore(_)
TextsBefore(p) == IF p = 0 THEN 0 ELSE TextsBefore(p - 1) + Len(texts_by_page[p - 1])

\* an export in which the insertions go as ins tells and the save as saved
ExportWith(saved, ins) ==
    /\ share_dialogs > 0
    /\ export_frame
    /\ \/ Recorded("chosen", saved, ins) /\ do_save("chosen", saved, ins)
       \/ Recorded("temp", saved, ins) /\ do_mail(saved, ins)

\* C13: in an export whose mapping raises nothing, an insertion that fails
\* with the mapped font is tried once more without a font name, and left out
\* if that fails too: one or two insertion calls per text, never more; every
\* text and every rectangle of every page is still processed, the others
\* coming out as in an export without failures; and the document is saved.
C13_FontFallback ==
    [][\A saved \in BOOLEAN, ins \in Inserts :
          LET E == ExportPages(ExportStart, 0, ins)
          IN  (/\ ExportWith(saved, ins)
               /\ ~E.failed
               /\ \E k \in 1 .. Len(E.inserts) : E.inserts[k] # "ok") =>
                  /\ Len(E.inserts) = TextCount
                  /\ \A k \in 1 .. Len(E.inserts) :
                         /\ Attempts(E.inserts[k]) <= 2
                         /\ Attempts(E.inserts[k]) = 2 <=> E.inserts[k] # "ok"
                  /\ \A p \in Pages :
                         /\ Len(E.out[p].rects) = Len(redactions_by_page[p])
                         /\ E.out[p].rects = Composed.out[p].rects
                         /\ E.out[p].texts
                                = Expected(Composed.out[p].texts,
                                           SubSeq(ins, TextsBefore(p) + 1,
                                                  TextsBefore(p) + Len(texts_by_page[p])))
                  /\ last_export'.inserts = E.inserts
                  /\ last_export'.status = IF saved THEN "saved" ELSE "save failed"
                  /\ saved => files'[last_export'.target] = "pdf"]_vars

\* a document was saved whose text on the first page was left out after two
\* failed insertions, with a rectangle stored for the page after it
C13_Witness ==
    /\ last_export.status = "saved"
    /\ last_export.inserts = <<"skipped">>
    /\ files[last_export.target] = "pdf"
    /\ texts_by_page[0] # <<>>
    /\ redactions_by_page[1] # <<>>

\* the rectangle c lies inside the image ph centred in the canvas cs
InsideImage(c, ph, cs) ==
    /\ cs[1] - ph.w < 2 * Min(c[1], c[3]) /\ 2 * Max(c[1], c[3]) < cs[1] + ph.w
    /\ cs[2] - ph.h < 2 * Min(c[2], c[4]) /\ 2 * Max(c[2], c[4]) < cs[2] + ph.h

\* the page-space rectangle r lies strictly inside the page p
StrictlyInPage(p, r) ==
    /\ 0 < r[1][1] /\ ~FracLE(<<PageRect(p).w, 1>>, r[3])
    /\ 0 < r[2][1] /\ ~FracLE(<<PageRect(p).h, 1>>, r[4])

\* C19: in an export in fit mode, a stored rectangle of a page whose fitted
\* image is the one on screen, lying inside that image, comes out strictly
\* inside the page, its width the pixel width times page_width / display_w
\* and its height the pixel height times page_height / display_h.
C19_FitRedaction ==
    [][(ExportStep /\ fit_to_window /\ page_photo.set) =>
          \A p \in Pages : \A i \in 1 .. Len(redactions_by_page[p]) :
              LET c == redactions_by_page[p][i]
              IN  (/\ page_photo = Render(p, TRUE, zoom, canvas_size)
                   /\ InsideImage(c, page_photo, canvas_size)) =>
                      LET r == Composed.out[p].rects[i]
                      IN  /\ StrictlyInPage(p, r)
                          /\ FracAdd(r[3], <<0 - r[1][1], r[1][2]>>)
                                 = Frac(Abs(c[3] - c[1]) * PageRect(p).w, page_photo.w)
                          /\ FracAdd(r[4], <<0 - r[2][1], r[2][2]>>)
                                 = Frac(Abs(c[4] - c[2]) * PageRect(p).h, page_photo.h)]_vars

\* a document was saved in fit mode with a rectangle of the page shown that
\* lies inside the fitted image
C19_Witness ==
    /\ last_export.status = "saved"
    /\ fit_to_window
    /\ page_photo = Render(current_page, TRUE, zoom, canvas_size)
    /\ \E i \in 1 .. Len(redactions_by_page[current_page]) :
           InsideImage(redactions_by_page[current_page][i], page_photo, canvas_size)

\* C20: every text object an export inserts lies at (mapped_x, mapped_y +
\* 0.8 * size), where (mapped_x, mapped_y) is the mapper's image of the stored
\* pixel position of a text of that page, under the image on screen or the
\* page's own rendering, and size is the stored font size of that text.
C20_TextBaseline ==
    [][\A saved \in BOOLEAN, ins \in Inserts :
          ExportWith(saved, ins) =>
              LET E == ExportPages(ExportStart, 0, ins)
              IN  \A p \in Pages : \A i \in 1 .. Len(E.out[p].texts) :
                      \E u \in SeqSet(texts_by_page[p]) :
                      \E ph \in { page_photo, Render(p, fit_to_window, zoom, canvas_size) } :
                          /\ ph.set
                          /\ LET td == text_heap[u]
                                 m == canvas_to_pdf_point(p, td.x, td.y, ph, fit_to_window,
                                                          canvas_size)
                             IN  /\ E.out[p].texts[i].text = td.text
                                 /\ E.out[p].texts[i].fontsize = td.size
                                 /\ E.out[p].texts[i].x = m[1]
                                 /\ E.out[p].texts[i].y
                                        = FracAdd(m[2], Frac(td.size * 4, 5))]_vars

\* a document was saved with a text of size 12 inserted in zoom mode
C20_Witness ==
    /\ last_export.status = "saved"
    /\ last_export.inserts = <<"ok">>
    /\ ~fit_to_window
    /\ page_photo.set
    /\ \E p \in Pages : \E i \in 1 .. Len(texts_by_page[p]) :
           text_heap[texts_by_page[p][i]].size = 12

(***************************************************************************)
(* Thumbnail cache.                                                        *)
(***************************************************************************)
\* the max_thumb_cache most recently accessed pages, oldest access first
MostRecent ==
    LET n == Len(access_order)
    IN  SubSeq(access_order, n - Min(n, max_thumb_cache) + 1, n)

\* C9: the thumbnail cache never holds more than max_thumb_cache entries, and
\* it holds exactly the most recently accessed pages: each insertion over the
\* capacity has evicted one entry, the least recently accessed.
C9_LruBound ==
    /\ Len(thumbnail_cache) <= max_thumb_cache
    /\ thumbnail_cache = MostRecent

\* capacity + 1 distinct pages were accessed and the first accessed is gone
C9_Witness ==
    /\ Len(access_order) = max_thumb_cache + 1
    /\ Len(thumbnail_cache) = max_thumb_cache
    /\ Head(access_order) \notin SeqSet(thumbnail_cache)

Pos(s, x) == CHOOSE i \in 1 .. Len(s) : s[i] = x

\* one _ensure_thumb call, for the cached page p
CacheHit(p) ==
    /\ p \in SeqSet(thumbnail_cache)
    /\ thumb_batch_idx' = thumb_batch_idx
    /\ current_page' = p
    /\ access_order' = Touch(access_order, p)

\* C10: a cache hit makes the page the most recently used one, adds no entry
\* and removes none, and keeps the order of the others; and a page leaves
\* the cache only when every entry that stays was accessed after it.
C10_HitPromotes ==
    [][/\ \A p \in Pages : CacheHit(p) =>
              /\ Len(thumbnail_cache') = Len(thumbnail_cache)
              /\ SeqSet(thumbnail_cache') = SeqSet(thumbnail_cache)
              /\ thumbnail_cache'[Len(thumbnail_cache')] = p
              /\ SeqWithout(thumbnail_cache', p) = SeqWithout(thumbnail_cache, p)
       /\ thumb_batch_idx' = thumb_batch_idx =>
              \A q \in SeqSet(thumbnail_cache) \ SeqSet(thumbnail_cache') :
                  \A r \in SeqSet(thumbnail_cache) \cap SeqSet(thumbnail_cache') :
                      Pos(access_order, q) < Pos(access_order, r)]_vars

\* no page was ever evicted, and a hit has moved an early page behind a later one
C10_Witness ==
    /\ Len(access_order) = Len(thumbnail_cache)
    /\ Len(thumbnail_cache) >= 2
    /\ thumbnail_cache[Len(thumbnail_cache)] < thumbnail_cache[1]

\* the pages idx .. end-1, in increasing order
RECURSIVE Range(_, _)
Range(idx, end) == IF idx >= end THEN <<>> ELSE <<idx>> \o Range(idx + 1, end)

\* the last n elements of the sequence s
LastN(s, n) == SubSeq(s, Len(s) - n + 1, Len(s))

\* C25: with the event loop running, the thumbnail of every page is
\* generated in the end and no callback stays scheduled; each callback
\* generates the pages from _thumb_batch_idx on, in increasing order, at most
\* thumb_batch_size of them; _thumb_batch_idx never decreases and never
\* exceeds total_pages; and no callback is scheduled once it has reached
\* total_pages.
C25_ThumbsComplete ==
    /\ <>(thumb_batch_idx = NumPages /\ SeqSet(access_order) = Pages)
    /\ [](thumb_batch_idx <= NumPages)
    /\ [](thumb_batch_idx = NumPages => ~thumb_after)
    /\ [][thumb_batch_idx' >= thumb_batch_idx]_vars
    /\ [][thumb_batch_idx' # thumb_batch_idx =>
            /\ thumb_batch_idx' - thumb_batch_idx <= thumb_batch_size
            /\ LastN(access_order', thumb_batch_idx' - thumb_batch_idx)
                   = Range(thumb_batch_idx, thumb_batch_idx')]_vars

\* the last batch has run after the user had turned to another page: every
\* page has its thumbnail and no callback is scheduled
C25_Witness ==
    /\ thumb_batch_idx = NumPages
    /\ ~thumb_after
    /\ SeqSet(access_order) = Pages
    /\ current_page # 0

(***************************************************************************)
(* Coordinate mapping.                                                     *)
(***************************************************************************)
\* the page-space point q lies in the page rectangle of page p
InPage(p, q) ==
    /\ FracLE(<<0, 1>>, q[1]) /\ FracLE(q[1], <<PageRect(p).w, 1>>)
    /\ FracLE(<<0, 1>>, q[2]) /\ FracLE(q[2], <<PageRect(p).h, 1>>)

\* C11: whenever the mapper was called on a rendered page, in fit mode or in
\* zoom mode, with any page and pixel coordinate, it raised no error and its
\* result lies in the page rectangle.
C11_ClampsInEveryMode ==
    (mapped.kind = "point" /\ mapped.ph.set) =>
        /\ ~mapped.raised
        /\ InPage(mapped.page, mapped.result)

\* C12: whenever the mapper was called while no page had been rendered yet,
\* it raised no error and returned (pixel_x, page_height - pixel_y).
C12_FallbackWithoutRaster ==
    (mapped.kind = "point" /\ ~mapped.ph.set) =>
        /\ ~mapped.raised
        /\ mapped.result = << <<mapped.at[1], 1>>,
                              <<PageRect(mapped.page).h - mapped.at[2], 1>> >>

SwapX(c) == <<c[3], c[2], c[1], c[4]>>
SwapY(c) == <<c[1], c[4], c[3], c[2]>>

\* C17: whenever the rectangle mapper was called, the call with x0 and x1
\* swapped, with y0 and y1 swapped, or with both swapped gives the same
\* outcome, and a rectangle it returns has x0 <= x1 and y0 <= y1.
C17_CornerOrder ==
    mapped.kind = "rect" =>
        /\ \A d \in { SwapX(mapped.at), SwapY(mapped.at), SwapX(SwapY(mapped.at)) } :
               RectCall(mapped.page, d, mapped.ph, mapped.fit, mapped.cs)
                   = [raised |-> mapped.raised, result |-> mapped.result]
        /\ ~mapped.raised =>
               /\ FracLE(mapped.result[1], mapped.result[3])
               /\ FracLE(mapped.result[2], mapped.result[4])

\* a rectangle given right to left and top to bottom was mapped in zoom mode
\* to a rectangle that is neither empty nor flat
C17_Witness ==
    /\ mapped.kind = "rect"
    /\ ~mapped.raised
    /\ ~mapped.fit
    /\ mapped.at[1] > mapped.at[3]
    /\ mapped.at[2] < mapped.at[4]
    /\ mapped.result[1] # mapped.result[3]
    /\ mapped.result[2] # mapped.result[4]

\* the pixel point pt lies on the displayed image
InImage(pt, ph, fit, cs) ==
    LET off2x == IF fit THEN cs[1] - ph.w ELSE 0
        off2y == IF fit THEN cs[2] - ph.h ELSE 0
    IN  /\ 0 <= 2 * pt[1] - off2x /\ 2 * pt[1] - off2x <= 2 * ph.w
        /\ 0 <= 2 * pt[2] - off2y /\ 2 * pt[2] - off2y <= 2 * ph.h

\* from page space back to pixel space: undo the flip, scale by the image
\* size over the page size, add the centring offset; the result is doubled
BackToPixel2(p, q, ph, fit, cs) ==
    LET off2x == IF fit THEN cs[1] - ph.w ELSE 0
        off2y == IF fit THEN cs[2] - ph.h ELSE 0
        down == FracAdd(<<PageRect(p).h, 1>>, <<0 - q[2][1], q[2][2]>>)
    IN  << FracAdd(Frac(q[1][1] * 2 * ph.w, q[1][2] * PageRect(p).w), <<off2x, 1>>),
           FracAdd(Frac(down[1] * 2 * ph.h, down[2] * PageRect(p).h), <<off2y, 1>>) >>

\* C18: whenever the mapper was called with a pixel point on the displayed
\* image, mapping its result back under the same view gives the point again,
\* and no other pixel point on the image has the same result.
C18_RoundTrip ==
    (/\ mapped.kind = "point"
     /\ ~mapped.raised
     /\ InImage(mapped.at, mapped.ph, mapped.fit, mapped.cs)) =>
        /\ BackToPixel2(mapped.page, mapped.result, mapped.ph, mapped.fit, mapped.cs)
               = << <<2 * mapped.at[1], 1>>, <<2 * mapped.at[2], 1>> >>
        /\ \A pt \in Probes :
               (/\ InImage(pt, mapped.ph, mapped.fit, mapped.cs)
                /\ canvas_to_pdf_point(mapped.page, pt[1], pt[2], mapped.ph, mapped.fit,
                                       mapped.cs) = mapped.result)
                   => pt = mapped.at

\* a point on the image of a page fitted into the canvas was mapped to a
\* page-space point that is not a whole number of points
C18_Witness ==
    /\ mapped.kind = "point"
    /\ ~mapped.raised
    /\ mapped.fit
    /\ InImage(mapped.at, mapped.ph, mapped.fit, mapped.cs)
    /\ mapped.result[1][2] > 1
    /\ mapped.result[2][2] > 1

(***************************************************************************)
(* Font mapping.                                                           *)
(***************************************************************************)
ExportFonts == { "helv", "times", "cour" }

\* the family name fam contains the Tk family of the entry label, whatever
\* the case of the letters
Names(fam, label) == Contains(Lower(fam), Lower(TkFamily(label)))
NamesAny(fam) == \E i \in 1 .. Len(FontLabels) : Names(fam, FontLabels[i])

\* C21: whenever the font mapper was called, it returned one of helv, times
\* and cour; for a family name containing one of the three mapped family
\* names, the export font of such an entry; and for a family name containing
\* none of them, helv.
C21_FontFromTk ==
    mapped.kind = "font" =>
        /\ mapped.result \in ExportFonts
        /\ NamesAny(mapped.at[1]) =>
               \E i \in 1 .. Len(FontLabels) :
                   Names(mapped.at[1], FontLabels[i]) /\ mapped.result = FitzName(FontLabels[i])
        /\ ~NamesAny(mapped.at[1]) => mapped.result = "helv"

\* C21, amended: whenever the font mapper was called, it returned one of
\* helv, times and cour; for a family name containing a mapped family name,
\* the export font of the first such entry of the map; for a name containing
\* none of them, times if it contains "time", "georgia" or "serif", else cour
\* if it contains "cour" or "mono", else helv; letters compare without case.
C21_FontFromTkKeywords ==
    mapped.kind = "font" =>
        LET low == Lower(mapped.at[1])
            serif == \E w \in { "time", "georgia", "serif" } : Contains(low, w)
            mono == \E w \in { "cour", "mono" } : Contains(low, w)
        IN  /\ mapped.result \in ExportFonts
            /\ \A i \in 1 .. Len(FontLabels) :
                   (/\ Names(mapped.at[1], FontLabels[i])
                    /\ \A j \in 1 .. (i - 1) : ~Names(mapped.at[1], FontLabels[j]))
                       => mapped.result = FitzName(FontLabels[i])
            /\ ~NamesAny(mapped.at[1]) =>
                   /\ serif => mapped.result = "times"
                   /\ (~serif /\ mono) => mapped.result = "cour"
                   /\ (~serif /\ ~mono) => mapped.result = "helv"

\* a family name that contains no mapped family name, in letters of both
\* cases, was mapped to the monospaced export font
C21_Witness ==
    /\ mapped.kind = "font"
    /\ ~NamesAny(mapped.at[1])
    /\ Lower(mapped.at[1]) # mapped.at[1]
    /\ mapped.result = "cour"

(***************************************************************************)
(* Navigation.                                                             *)
(***************************************************************************)
\* C29: current_page is a page of the document in every state, and so is
\* every value an export started from the state assigns to it on the way;
\* goto_page with an index outside the document, next_page on the last page
\* and prev_page on the first page leave current_page as it was.
C29_PageInRange ==
    /\ [](current_page \in Pages)
    /\ []((alive /\ share_dialogs > 0) =>
             \A k \in 1 .. Len(Composed.currents) : Composed.currents[k] \in Pages)
    /\ [][(\E p \in NavTargets \ Pages : ThumbClick(p)) => current_page' = current_page]_vars
    /\ [][(current_page = NumPages - 1 /\ (KeyRightNav \/ Wheel(0 - 1)))
              => current_page' = current_page]_vars
    /\ [][(current_page = 0 /\ (KeyLeftNav \/ Wheel(1)))
              => current_page' = current_page]_vars

\* a document holding a text of the first page was saved with the last page
\* shown, on a laid-out canvas: the export showed the first page and the
\* last page again
C29_Witness ==
    /\ last_export.status = "saved"
    /\ current_page = NumPages - 1
    /\ texts_by_page[0] # <<>>
    /\ page_photo = Render(current_page, fit_to_window, zoom, canvas_size)

(***************************************************************************)
(* Tools and keys.                                                         *)
(***************************************************************************)
\* C26: pressing Escape while a tool is active leaves the viewer open, no
\* tool active, no gesture handler bound to the page canvas, and the overlay
\* store as it was.
C26_EscapeEndsToolOnly ==
    [][(KeyEscape /\ active_tool \in ToolNames) =>
          /\ alive'
          /\ active_tool' = ""
          /\ canvas_binds' = "none"
          /\ StoreValue' = StoreValue]_vars

\* C27: in every state, if no tool is marked active, then the redaction
\* gestures are disabled (_redact_overlay is None) and the text tool is
\* inactive (_text_overlay is absent or its active flag is false).
C27_IndicatorAgrees ==
    active_tool = "" => (~redact_overlay.set /\ text_overlay # "active")

\* C28: in every state of the open viewer in which the redaction tool is
\* not active, pressing Right on a page before the last shows the next page
\* and pressing Left on a page after the first shows the previous one.
C28_ArrowsNavigate ==
    (alive /\ active_tool # "redact" /\ CanDisplay(canvas_size, display_after)) =>
        /\ current_page < NumPages - 1 =>
               ENABLED (KeyRightNav /\ current_page' = current_page + 1)
        /\ current_page > 0 =>
               ENABLED (KeyLeftNav /\ current_page' = current_page - 1)

(***************************************************************************)
(* Zoom.                                                                   *)
(***************************************************************************)
\* a step of one of the manual zoom handlers
ManualZoom ==
    \/ \E step \in ZoomSteps : zoom_in(step) \/ zoom_out(step)
    \/ zoom_reset

\* C22: whatever zoom_in, zoom_out, zoom_reset and toggle_fit calls have
\* happened, min_zoom <= zoom <= max_zoom; every manual zoom operation leaves
\* fit_to_window false; and toggle_fit inverts the fit flag and leaves the
\* zoom factor alone.
C22_ZoomBounded ==
    /\ [](min_zoom <= zoom /\ zoom <= max_zoom)
    /\ [][ManualZoom => ~fit_to_window']_vars
    /\ [][toggle_fit => (zoom' = zoom /\ fit_to_window' = ~fit_to_window)]_vars

\* the page was zoomed out to the least factor and then fitted to the window
C22_Witness ==
    /\ zoom = min_zoom
    /\ fit_to_window
    /\ page_photo = Render(current_page, TRUE, zoom, canvas_size)

====
